---- MODULE Spec2Model ----
(***************************************************************************)
(* Business Manager: the State Gateway's location handlers (getLocation,   *)
(* saveLocation with its Save Guard), the gateway build of lambda/index.js *)
(* (the one aws-setup.md deploys), and the Reminder Evaluator.             *)
(*                                                                         *)
(* JavaScript objects are records whose DOMAIN is the set of keys that are *)
(* present: a missing key is a key outside the DOMAIN.  null / undefined   *)
(* objects are the record Null.  Arrays are sequences.                     *)
(***************************************************************************)
EXTENDS Naturals, Sequences, FiniteSets, TLC

\* ------------------------------------------------------------------ bounds

\* Largest version number a client puts in a request body.
MaxVersion == 1

\* Accepted saves counted per run (the counter saturates the guard).
MaxSaves == 3

\* Evaluator invocations (ticks) started per run.
MaxTicks == 3

\* Store or secrets calls of the evaluator that fail per run.
MaxFailures == 1

\* The wall clock runs over the days FirstDay .. FirstDay + MaxDays - 1 and,
\* within a day, over the minutes 09:00 .. 09:MaxMinute.
MaxDays == 2

MaxMinute == 1

\* Backup ids generated per run.
MaxBackups == 2

\* Subscriptions an api client makes per run.
MaxSubs == 2

\* Times the polling intervals of an api client fire per run.
MaxPolls == 2

\* ------------------------------------------------------- program constants

\* part_003:223  prevProductCount > 10, prevTaskCount > 10
PrevCountThreshold == 10

\* part_003:223  newProductCount < 3, newTaskCount < 3
NewCountThreshold == 3

\* ------------------------------------------------------------- JS helpers

Null == [null |-> TRUE]

Has(o, k) == k \in DOMAIN o

\* o.k?.length || 0
LengthOr0(o, k) == IF Has(o, k) THEN Len(o[k]) ELSE 0

\* o.k || []
ArrayOrEmpty(o, k) == IF Has(o, k) THEN o[k] ELSE <<>>

\* arr.reduce((sum, c) => sum + (c.k?.length || 0), 0)
RECURSIVE ReduceLengths(_, _)
ReduceLengths(arr, k) ==
    IF arr = <<>> THEN 0
    ELSE LengthOr0(Head(arr), k) + ReduceLengths(Tail(arr), k)

\* doc.categories?.reduce(...) || 0
ProductCount(doc) ==
    IF Has(doc, "categories") THEN ReduceLengths(doc.categories, "products") ELSE 0

\* doc.taskLists?.reduce(...) || 0
TaskCount(doc) ==
    IF Has(doc, "taskLists") THEN ReduceLengths(doc.taskLists, "tasks") ELSE 0

\* data.version || 0
VersionOr0(data) == IF Has(data, "version") THEN data.version ELSE 0

\* ------------------------------------------------------ request documents

LocationIds == {"isgav"}

SupplierIds == {"sup-1", "sup-2"}

Reqs == {1, 2}

\* The subscriptions of an api client, in the order they are made, and the
\* gateway invocation that serves the request of each.
Subs == 1..MaxSubs

SubReq(s) == 2 + s

PollReqs == { SubReq(s) : s \in Subs }

Items(n) == [i \in 1..n |-> "x"]

Category(n) == [id |-> "c", products |-> Items(n)]

TaskList(n) == [id |-> "t", tasks |-> Items(n)]

\* An array of categories holding n products in all; more than 5 are split
\* over two categories so that the sum is taken across categories.
Categories(n) ==
    IF n <= 5 THEN << Category(n) >> ELSE << Category(5), Category(n - 5) >>

TaskLists(n) ==
    IF n <= 5 THEN << TaskList(n) >> ELSE << TaskList(5), TaskList(n - 5) >>

\* The categories arrays a request may carry; <<>> is the empty array and
\* the last one holds a category with no products key.
CategoryArrays ==
    { <<>>, << [id |-> "c"] >> } \cup { Categories(n) : n \in {2, 3, 4, 10, 11} }

TaskListArrays ==
    { <<>>, << [id |-> "t"] >> } \cup { TaskLists(n) : n \in {2, 3, 10, 11} }

SimpleCategoryArrays == { <<>>, Categories(4) }

SimpleTaskListArrays == { <<>>, TaskLists(3) }

\* (categories, taskLists) pairs of a request: one side plain, or both rich.
ContentPairs ==
    { p \in CategoryArrays \X TaskListArrays :
        \/ p[1] \in SimpleCategoryArrays
        \/ p[2] \in SimpleTaskListArrays
        \/ p = << Categories(11), TaskLists(11) >> }

\* The parsed request bodies of PUT /locations/{id}: every content pair
\* without a version, the categories or the taskLists key missing, and a few
\* contents under every version a client may send.
Bodies ==
    { [categories |-> p[1], taskLists |-> p[2]] : p \in ContentPairs }
    \cup { [categories |-> c] : c \in CategoryArrays }
    \cup { [taskLists |-> t] : t \in TaskListArrays }
    \cup { [categories |-> c, taskLists |-> <<>>, version |-> v] :
              c \in { Categories(4), Categories(11) }, v \in 0..MaxVersion }
    \cup { [version |-> v] : v \in 0..MaxVersion }

\* ------------------------------------------------------------------ state

VARIABLES
    locations,   \* table business-manager-locations: id -> item or Null
    req,         \* gateway invocations: slot -> the handler's position and locals
    accepted,    \* history: accepted saves per location since the table was empty
    lastPut,     \* history: the last accepted PUT per location and the version before it
    reminders,   \* table business-manager-reminders: id -> item or Null
    sentReminders, \* table business-manager-sent-reminders: the set of its items
    secret,      \* the secret business-manager/telegram, parsed, or Null when there is none
    clock,       \* wall clock in Asia/Jerusalem: [day, minutes]
    tk,          \* evaluator invocations: slot -> the handler's position and locals
    started,     \* history: ticks started
    failures,    \* history: failed store and secrets calls of the evaluator
    notifier,    \* history: per sent key, the marker checks, Notifier calls and successes
    backups,     \* table business-manager-backups: the set of its items
    suppliers,   \* table business-manager-suppliers: id -> item or Null
    generated,   \* ids generated so far, per kind of record
    versionCache, \* api client: client -> location -> the cached document or Null
    cl,          \* api client: client -> the position and locals of its saveLocation
    subs,        \* api client: client -> subscription -> its closure and request
    activePollers, \* api client: client -> poller id -> interval id, 0 for no entry
    pollingPaused, \* api client: client -> _pollingPaused
    stopped      \* history: client -> stopAllPolling returned and no subscribe since

gatewayVars == << locations, req, accepted, lastPut >>

evaluatorVars ==
    << reminders, sentReminders, secret, clock, tk, started, failures, notifier >>

tableVars == << backups, suppliers, generated >>

pollVars == << subs, activePollers, pollingPaused, stopped >>

clientVars == << versionCache, cl, pollVars >>

vars == << gatewayVars, evaluatorVars, tableVars, clientVars >>

IdleReq ==
    [pc |-> "idle", method |-> "", path |-> <<>>, id |-> "", data |-> Null,
     item |-> Null, status |-> 0, body |-> Null]

\* response(statusCode, body): the body is the object the caller parses back
\* (JSON.parse(JSON.stringify(x)) = x on these documents).
response(r, method, id, data, statusCode, body) ==
    [pc |-> "done", method |-> method, path |-> << "locations" >>, id |-> id,
     data |-> data, item |-> Null, status |-> statusCode, body |-> body]

ErrorBody(msg) == [error |-> msg]

InitGateway ==
    /\ locations = [l \in LocationIds |-> Null]
    /\ req = [r \in Reqs \cup PollReqs |-> IdleReq]
    /\ accepted = [l \in LocationIds |-> 0]
    /\ lastPut = [l \in LocationIds |-> Null]

\* A slot takes a new invocation when it holds none or a finished one.
Free(r) == req[r].pc \in {"idle", "done"}

\* ------------------------------------------------- gateway: getLocation

\* part_003:178-194 with a not-found answer in place of the default document.
getLocation_NotFound(r, locationId, ok) ==
    /\ Free(r)
    /\ req' = [req EXCEPT ![r] =
         IF ~ok THEN response(r, "GET", locationId, Null, 500, ErrorBody("store"))
         ELSE IF locations[locationId] = Null
         THEN response(r, "GET", locationId, Null, 404, ErrorBody("Not found"))
         ELSE response(r, "GET", locationId, Null, 200, locations[locationId])]
    /\ UNCHANGED << locations, accepted, lastPut, evaluatorVars, tableVars, clientVars >>

\* part_003:178-194.  ok: whether the GetCommand succeeds; a throw is caught
\* by the handler (part_003:168-171) and answered 500.
getLocation(r, locationId, ok) ==
    /\ Free(r)
    /\ req' = [req EXCEPT ![r] =
         IF ~ok THEN response(r, "GET", locationId, Null, 500, ErrorBody("store"))
         ELSE IF locations[locationId] = Null
         THEN response(r, "GET", locationId, Null, 200,
                  [id |-> locationId, categories |-> <<>>, taskLists |-> <<>>,
                   version |-> 0])
         ELSE response(r, "GET", locationId, Null, 200, locations[locationId])]
    /\ UNCHANGED << locations, accepted, lastPut, evaluatorVars, tableVars, clientVars >>

\* ------------------------------------------------ gateway: saveLocation

\* part_003:202-204
EmptyState(data) ==
    LengthOr0(data, "categories") = 0 /\ LengthOr0(data, "taskLists") = 0

\* The guard with its first threshold off by one (>= 10 for > 10).
SuspiciousReduction_AtTen(current, data) ==
    \/ ProductCount(current) >= PrevCountThreshold /\ ProductCount(data) < NewCountThreshold
    \/ TaskCount(current) >= PrevCountThreshold /\ TaskCount(data) < NewCountThreshold

\* The guard with `&&` between its two tests (products and tasks must both
\* shrink).
SuspiciousReduction_BothCounts(current, data) ==
    /\ ProductCount(current) > PrevCountThreshold /\ ProductCount(data) < NewCountThreshold
    /\ TaskCount(current) > PrevCountThreshold /\ TaskCount(data) < NewCountThreshold

\* part_003:223-224
SuspiciousReduction(current, data) ==
    \/ ProductCount(current) > PrevCountThreshold /\ ProductCount(data) < NewCountThreshold
    \/ TaskCount(current) > PrevCountThreshold /\ TaskCount(data) < NewCountThreshold

\* part_003:240-248 (updatedAt, a wall-clock stamp no handler reads, is left out)
NewItem(locationId, data) ==
    [id |-> locationId,
     categories |-> ArrayOrEmpty(data, "categories"),
     taskLists |-> ArrayOrEmpty(data, "taskLists"),
     version |-> VersionOr0(data) + 1]

\* part_003:196-237 with an optimistic-concurrency check added: a body whose
\* version is below the stored one is answered 409.
saveLocation_get_VersionChecked(r, locationId, data, ok) ==
    /\ Free(r)
    /\ req' = [req EXCEPT ![r] =
         IF data = Null
         THEN response(r, "PUT", locationId, data, 400, ErrorBody("Missing data"))
         ELSE IF EmptyState(data)
         THEN response(r, "PUT", locationId, data, 400, ErrorBody("Cannot save empty state"))
         ELSE IF ~ok
         THEN response(r, "PUT", locationId, data, 500, ErrorBody("store"))
         ELSE IF /\ locations[locationId] # Null
                 /\ SuspiciousReduction(locations[locationId], data)
         THEN response(r, "PUT", locationId, data, 400,
                  ErrorBody("Suspicious data reduction detected"))
         ELSE IF /\ locations[locationId] # Null
                 /\ VersionOr0(data) < locations[locationId].version
         THEN response(r, "PUT", locationId, data, 409, ErrorBody("Stale version"))
         ELSE [pc |-> "put", method |-> "PUT", path |-> << "locations" >>,
               id |-> locationId, data |-> data,
               item |-> NewItem(locationId, data), status |-> 0, body |-> Null]]
    /\ UNCHANGED << locations, accepted, lastPut, evaluatorVars, tableVars, clientVars >>

\* part_003:196-237: validation, the guard's GetCommand and the checks on its
\* result.  data = Null is a request without a body.
saveLocation_get(r, locationId, data, ok) ==
    /\ Free(r)
    /\ req' = [req EXCEPT ![r] =
         IF data = Null
         THEN response(r, "PUT", locationId, data, 400, ErrorBody("Missing data"))
         ELSE IF EmptyState(data)
         THEN response(r, "PUT", locationId, data, 400, ErrorBody("Cannot save empty state"))
         ELSE IF ~ok
         THEN response(r, "PUT", locationId, data, 500, ErrorBody("store"))
         ELSE IF /\ locations[locationId] # Null
                 /\ SuspiciousReduction(locations[locationId], data)
         THEN response(r, "PUT", locationId, data, 400,
                  ErrorBody("Suspicious data reduction detected"))
         ELSE [pc |-> "put", method |-> "PUT", path |-> << "locations" >>,
               id |-> locationId, data |-> data,
               item |-> NewItem(locationId, data), status |-> 0, body |-> Null]]
    /\ UNCHANGED << locations, accepted, lastPut, evaluatorVars, tableVars, clientVars >>

\* The version a GET would report for what is stored.
StoredVersion(locationId) ==
    IF locations[locationId] = Null THEN 0 ELSE locations[locationId].version

\* History of an accepted PUT by slot r: its body, the version stored before
\* it, the other invocations that are between their guard read and their
\* PutCommand at this moment, and whether this invocation was itself in that
\* position when the previous accepted PUT was written.
PutRecord(r, locationId, data) ==
    [data |-> data,
     before |-> StoredVersion(locationId),
     during |-> { q \in Reqs \ {r} : req[q].pc = "put" /\ req[q].id = locationId },
     raced |-> lastPut[locationId] # Null /\ r \in lastPut[locationId].during]

\* part_003:250-255: the PutCommand and the 200 response.
saveLocation_put(r, ok) ==
    /\ req[r].pc = "put"
    /\ IF ok
       THEN /\ accepted[req[r].id] < MaxSaves
            /\ locations' = [locations EXCEPT ![req[r].id] = req[r].item]
            /\ accepted' = [accepted EXCEPT ![req[r].id] = @ + 1]
            /\ lastPut' = [lastPut EXCEPT ![req[r].id] = PutRecord(r, req[r].id, req[r].data)]
            /\ req' = [req EXCEPT ![r] =
                         response(r, "PUT", req[r].id, req[r].data, 200, req[r].item)]
            /\ UNCHANGED << evaluatorVars, tableVars, clientVars >>
       ELSE /\ req' = [req EXCEPT ![r] =
                         response(r, "PUT", req[r].id, req[r].data, 500, ErrorBody("store"))]
            /\ UNCHANGED << locations, accepted, lastPut, evaluatorVars, tableVars, clientVars >>

\* ---------------------------- gateway build lambda/index.js: saveLocation

\* lambda/index.js:155-177: no guard; one PutCommand.
lambda_saveLocation(r, locationId, data, ok) ==
    /\ Free(r)
    /\ IF data = Null
       THEN /\ req' = [req EXCEPT ![r] =
                         response(r, "PUT", locationId, data, 400, ErrorBody("Missing data"))]
            /\ UNCHANGED << locations, accepted, lastPut, evaluatorVars, tableVars, clientVars >>
       ELSE IF ~ok
       THEN /\ req' = [req EXCEPT ![r] =
                         response(r, "PUT", locationId, data, 500, ErrorBody("store"))]
            /\ UNCHANGED << locations, accepted, lastPut, evaluatorVars, tableVars, clientVars >>
       ELSE /\ accepted[locationId] < MaxSaves
            /\ locations' = [locations EXCEPT ![locationId] = NewItem(locationId, data)]
            /\ accepted' = [accepted EXCEPT ![locationId] = @ + 1]
            /\ lastPut' = [lastPut EXCEPT ![locationId] = PutRecord(r, locationId, data)]
            /\ req' = [req EXCEPT ![r] =
                         response(r, "PUT", locationId, data, 200, NewItem(locationId, data))]
            /\ UNCHANGED << evaluatorVars, tableVars, clientVars >>

\* ------------------------------------------------- gateway: createBackup

\* { ...a, ...b }: the keys of b over those of a.
Spread(a, b) == b @@ a

\* The handler's answer on a route other than /locations/{id}.
answer(method, path, data, statusCode, body) ==
    [pc |-> "done", method |-> method, path |-> path, id |-> "", data |-> data,
     item |-> Null, status |-> statusCode, body |-> body]

\* `backup-${Date.now()}-${Math.random()...}` (part_003:442): ids that do
\* not repeat, in the order they are stored (an id whose PutCommand failed
\* has left no trace and is not counted).
BackupIdPool == << "backup-1", "backup-2", "backup-3", "backup-4", "backup-5" >>

\* part_003:444-448: { id, ...data, backupTime } (backupTime, a wall-clock
\* stamp no handler reads back, is left out)
backupItem(id, data) == Spread([id |-> id], data)

\* PutCommand on the backups table: the item replaces the one under its id.
PutBackup(item) == { b \in backups : b.id # item.id } \cup { item }

\* part_003:437-456.  ok: whether the PutCommand succeeds.
createBackup(r, data, ok) ==
    /\ Free(r)
    /\ IF data = Null
       THEN /\ req' = [req EXCEPT ![r] =
                 answer("POST", << "backups" >>, data, 400, ErrorBody("Missing data"))]
            /\ UNCHANGED << backups, generated >>
       ELSE /\ generated.backup < MaxBackups
            /\ LET item == backupItem(BackupIdPool[generated.backup + 1], data)
               IN  IF ok
                   THEN /\ backups' = PutBackup(item)
                        /\ generated' = [generated EXCEPT !.backup = @ + 1]
                        /\ req' = [req EXCEPT ![r] =
                             answer("POST", << "backups" >>, data, 201, item)]
                   ELSE /\ UNCHANGED << backups, generated >>
                        /\ req' = [req EXCEPT ![r] =
                             answer("POST", << "backups" >>, data, 500, ErrorBody("store"))]
    /\ UNCHANGED << locations, accepted, lastPut, suppliers, evaluatorVars, clientVars >>

\* --------------------------------------------------- gateway: reminders

\* A path id as the characters of the key it names (the ids in use are one
\* character long).
chars(str) == << str >>

\* `rem-${Date.now()}-${Math.random()...}` (part_003:377): ids that do not
\* repeat, in the order they are generated.
ReminderIdPool == << << "a" >>, << "b" >> >>

\* part_003:373: !data || !data.title || !data.time
createReminder_Invalid(data) ==
    \/ data = Null
    \/ ~Has(data, "title") \/ data.title = ""
    \/ ~Has(data, "time") \/ data.time = <<>>

\* part_003:379-388 with enabled taken as the body gives it (!!data.enabled).
reminderItem_EnabledAsGiven(id, data) ==
    LET item == [id |-> id, title |-> data.title, time |-> data.time,
                 type |-> IF Has(data, "type") /\ data.type # "" THEN data.type
                          ELSE "recurring",
                 enabled |-> Has(data, "enabled") /\ data.enabled = TRUE,
                 days |-> ArrayOrEmpty(data, "days")]
    IN  IF Has(data, "date") /\ data.date # <<>>
        THEN Spread(item, [date |-> data.date]) ELSE item

\* part_003:379-388 (date: null is the date key left out; createdAt, a
\* wall-clock stamp only listReminders sorts by, is left out)
reminderItem(id, data) ==
    LET item == [id |-> id, title |-> data.title, time |-> data.time,
                 type |-> IF Has(data, "type") /\ data.type # "" THEN data.type
                          ELSE "recurring",
                 enabled |-> ~(Has(data, "enabled") /\ data.enabled = FALSE),
                 days |-> ArrayOrEmpty(data, "days")]
    IN  IF Has(data, "date") /\ data.date # <<>>
        THEN Spread(item, [date |-> data.date]) ELSE item

\* part_003:372-396
createReminder(r, data, ok) ==
    /\ Free(r)
    /\ IF createReminder_Invalid(data)
       THEN /\ req' = [req EXCEPT ![r] =
                 answer("POST", << "reminders" >>, data, 400,
                        ErrorBody("Missing required fields: title, time"))]
            /\ UNCHANGED << reminders, generated >>
       ELSE /\ generated.reminder < Len(ReminderIdPool)
            /\ LET item == reminderItem(ReminderIdPool[generated.reminder + 1], data)
               IN  IF ok
                   THEN /\ reminders' = [reminders EXCEPT ![item.id] = item]
                        /\ generated' = [generated EXCEPT !.reminder = @ + 1]
                        /\ req' = [req EXCEPT ![r] =
                             answer("POST", << "reminders" >>, data, 201, item)]
                   ELSE /\ UNCHANGED << reminders, generated >>
                        /\ req' = [req EXCEPT ![r] =
                             answer("POST", << "reminders" >>, data, 500, ErrorBody("store"))]
    /\ UNCHANGED << locations, accepted, lastPut, backups, suppliers, clientVars,
                    sentReminders, secret, clock, tk, started, failures, notifier >>

\* An answer on a route with an id in its path.
answerId(method, path, id, data, statusCode, body) ==
    [answer(method, path, data, statusCode, body) EXCEPT !.id = id]

\* part_003:346-357: every item of the table, the later created first (ids
\* are generated in the order of ReminderIdPool).  The array the route
\* answers is carried under the key items.
listReminders(r, ok) ==
    /\ Free(r)
    /\ req' = [req EXCEPT ![r] =
         IF ~ok THEN answer("GET", << "reminders" >>, Null, 500, ErrorBody("store"))
         ELSE answer("GET", << "reminders" >>, Null, 200,
                [items |-> SelectSeq([i \in 1..Len(ReminderIdPool) |->
                                        reminders[ReminderIdPool[Len(ReminderIdPool) + 1 - i]]],
                                     LAMBDA item : item # Null)])]
    /\ UNCHANGED << locations, accepted, lastPut, evaluatorVars, tableVars, clientVars >>

\* part_003:359-370
getReminder(r, id, ok) ==
    /\ Free(r)
    /\ req' = [req EXCEPT ![r] =
         IF ~ok THEN answerId("GET", << "reminders" >>, id, Null, 500, ErrorBody("store"))
         ELSE IF reminders[chars(id)] = Null
         THEN answerId("GET", << "reminders" >>, id, Null, 404,
                       ErrorBody("Reminder not found"))
         ELSE answerId("GET", << "reminders" >>, id, Null, 200, reminders[chars(id)])]
    /\ UNCHANGED << locations, accepted, lastPut, evaluatorVars, tableVars, clientVars >>

\* part_003:408-413: { ...existing.Item, ...data, id } (updatedAt, a
\* wall-clock stamp no handler reads, is left out)
updatedReminder(existing, id, data) ==
    Spread(IF data = Null THEN existing ELSE Spread(existing, data), [id |-> chars(id)])

\* part_003:398-406: updateReminder's GetCommand and the check on its result.
updateReminder_get(r, id, data, ok) ==
    /\ Free(r)
    /\ req' = [req EXCEPT ![r] =
         IF ~ok THEN answerId("PUT", << "reminders" >>, id, data, 500, ErrorBody("store"))
         ELSE IF reminders[chars(id)] = Null
         THEN answerId("PUT", << "reminders" >>, id, data, 404,
                       ErrorBody("Reminder not found"))
         ELSE [answerId("PUT", << "reminders" >>, id, data, 0, Null) EXCEPT
                 !.pc = "putReminder",
                 !.item = updatedReminder(reminders[chars(id)], id, data)]]
    /\ UNCHANGED << locations, accepted, lastPut, evaluatorVars, tableVars, clientVars >>

\* part_003:415-420: updateReminder's PutCommand and the 200 response.
updateReminder_put(r, ok) ==
    /\ req[r].pc = "putReminder"
    /\ IF ok
       THEN /\ reminders' = [reminders EXCEPT ![req[r].item.id] = req[r].item]
            /\ req' = [req EXCEPT ![r] =
                 answerId("PUT", << "reminders" >>, req[r].id, req[r].data, 200, req[r].item)]
       ELSE /\ UNCHANGED reminders
            /\ req' = [req EXCEPT ![r] =
                 answerId("PUT", << "reminders" >>, req[r].id, req[r].data, 500,
                          ErrorBody("store"))]
    /\ UNCHANGED << locations, accepted, lastPut, tableVars, clientVars,
                    sentReminders, secret, clock, tk, started, failures, notifier >>

\* part_003:423-430: a DeleteCommand, whatever the table holds.
deleteReminder(r, id, ok) ==
    /\ Free(r)
    /\ IF ok
       THEN /\ reminders' = [reminders EXCEPT ![chars(id)] = Null]
            /\ req' = [req EXCEPT ![r] =
                 answerId("DELETE", << "reminders" >>, id, Null, 200,
                          [message |-> "Deleted"])]
       ELSE /\ UNCHANGED reminders
            /\ req' = [req EXCEPT ![r] =
                 answerId("DELETE", << "reminders" >>, id, Null, 500, ErrorBody("store"))]
    /\ UNCHANGED << locations, accepted, lastPut, tableVars, clientVars,
                    sentReminders, secret, clock, tk, started, failures, notifier >>

\* --------------------------------------------------- gateway: suppliers

\* `sup-${Date.now()}-${Math.random()...}` (part_003:608): ids that do not
\* repeat, in the order they are generated.
SupplierIdPool == << "sup-1", "sup-2" >>

\* o.k || other, on strings
StringOr(o, k, other) == IF Has(o, k) /\ o[k] # "" THEN o[k] ELSE other

\* part_003:610-617 (phone: null and notes: null are the key left out;
\* createdAt is left out)
supplierItem(id, data) ==
    LET item == [id |-> id, name |-> data.name,
                 location |-> StringOr(data, "location", "isgav")]
        withPhone == IF Has(data, "phone") /\ data.phone # ""
                     THEN Spread(item, [phone |-> data.phone]) ELSE item
    IN  IF Has(data, "notes") /\ data.notes # ""
        THEN Spread(withPhone, [notes |-> data.notes]) ELSE withPhone

\* part_003:603-626
createSupplier(r, data, ok) ==
    /\ Free(r)
    /\ IF data = Null \/ ~Has(data, "name") \/ data.name = ""
       THEN /\ req' = [req EXCEPT ![r] =
                 answer("POST", << "suppliers" >>, data, 400,
                        ErrorBody("Missing required field: name"))]
            /\ UNCHANGED << suppliers, generated >>
       ELSE /\ generated.supplier < Len(SupplierIdPool)
            /\ LET item == supplierItem(SupplierIdPool[generated.supplier + 1], data)
               IN  IF ok
                   THEN /\ suppliers' = [suppliers EXCEPT ![item.id] = item]
                        /\ generated' = [generated EXCEPT !.supplier = @ + 1]
                        /\ req' = [req EXCEPT ![r] =
                             answer("POST", << "suppliers" >>, data, 201, item)]
                   ELSE /\ UNCHANGED << suppliers, generated >>
                        /\ req' = [req EXCEPT ![r] =
                             answer("POST", << "suppliers" >>, data, 500, ErrorBody("store"))]
    /\ UNCHANGED << locations, accepted, lastPut, backups, evaluatorVars, clientVars >>

\* part_003:640-647: a key the body gives (phone, notes: whenever it is not
\* undefined; name, location: when it is not empty) over the existing one.
updatedSupplier(existing, data) ==
    [k \in DOMAIN existing \cup ({"phone", "notes"} \cap DOMAIN data) |->
        IF k \in {"phone", "notes"}
        THEN IF Has(data, k) THEN data[k] ELSE existing[k]
        ELSE IF k \in {"name", "location"}
        THEN StringOr(data, k, existing[k])
        ELSE existing[k]]

\* part_003:629-647: updateSupplier's GetCommand, the check on its result and
\* the building of the item, which reads data.name: without a body that is a
\* TypeError, caught by the handler (part_003:168-171) and answered 500.
updateSupplier_get(r, id, data, ok) ==
    /\ Free(r)
    /\ req' = [req EXCEPT ![r] =
         IF ~ok THEN answerId("PUT", << "suppliers" >>, id, data, 500, ErrorBody("store"))
         ELSE IF suppliers[id] = Null
         THEN answerId("PUT", << "suppliers" >>, id, data, 404,
                       ErrorBody("Supplier not found"))
         ELSE IF data = Null
         THEN answerId("PUT", << "suppliers" >>, id, data, 500, ErrorBody("TypeError"))
         ELSE [answerId("PUT", << "suppliers" >>, id, data, 0, Null) EXCEPT
                 !.pc = "putSupplier",
                 !.item = updatedSupplier(suppliers[id], data)]]
    /\ UNCHANGED << locations, accepted, lastPut, evaluatorVars, tableVars, clientVars >>

\* part_003:649-654: updateSupplier's PutCommand and the 200 response.
updateSupplier_put(r, ok) ==
    /\ req[r].pc = "putSupplier"
    /\ IF ok
       THEN /\ suppliers' = [suppliers EXCEPT ![req[r].item.id] = req[r].item]
            /\ req' = [req EXCEPT ![r] =
                 answerId("PUT", << "suppliers" >>, req[r].id, req[r].data, 200, req[r].item)]
       ELSE /\ UNCHANGED suppliers
            /\ req' = [req EXCEPT ![r] =
                 answerId("PUT", << "suppliers" >>, req[r].id, req[r].data, 500,
                          ErrorBody("store"))]
    /\ UNCHANGED << locations, accepted, lastPut, backups, generated, evaluatorVars,
                    clientVars >>

\* part_003:657-664: a DeleteCommand, whatever the table holds.
deleteSupplier(r, id, ok) ==
    /\ Free(r)
    /\ IF ok
       THEN /\ suppliers' = [suppliers EXCEPT ![id] = Null]
            /\ req' = [req EXCEPT ![r] =
                 answerId("DELETE", << "suppliers" >>, id, Null, 200,
                          [message |-> "Deleted"])]
       ELSE /\ UNCHANGED suppliers
            /\ req' = [req EXCEPT ![r] =
                 answerId("DELETE", << "suppliers" >>, id, Null, 500, ErrorBody("store"))]
    /\ UNCHANGED << locations, accepted, lastPut, backups, generated, evaluatorVars,
                    clientVars >>

\* ------------------------------------------------------ gateway: handler

\* event.body as it arrives: none, text that is not JSON, or the text of a
\* JSON value.
NoBody == [raw |-> "none"]

BadJson == [raw |-> "bad"]

Json(value) == [raw |-> "json", value |-> value]

\* part_003:81-82: body = null unless event.body is there; JSON.parse of the
\* text of a value gives the value.
parseBody(body) == IF body.raw = "json" THEN body.value ELSE Null

\* path.match(/^\/name\/[^/]+$/): the path as its segments.
matchesWithId(path, name) == Len(path) = 2 /\ path[1] = name /\ path[2] # ""

\* part_003:64-172 with the body parsed before the OPTIONS test.
handler_ParseFirst(r, event, ok) ==
    /\ Free(r)
    /\ req' = [req EXCEPT ![r] =
         IF event.body.raw = "bad"
         THEN answer(event.httpMethod, event.path, event.body, 400,
                     ErrorBody("Invalid JSON body"))
         ELSE answer(event.httpMethod, event.path, event.body, 200, [message |-> "OK"])]
    /\ UNCHANGED << locations, accepted, lastPut, evaluatorVars, tableVars, clientVars >>

\* part_003:64-172: the OPTIONS answer, the parsing of the body, the routes
\* (those of the schedules, the Telegram settings and the orders left out)
\* and the 404 after them.  ok: whether the store call of the routed handler
\* succeeds; its throw is caught and answered 500 (part_003:168-171).
handler(r, event, ok) ==
    LET path == event.path
        method == event.httpMethod
        body == parseBody(event.body)
        id == path[Len(path)]
    IN  IF method = "OPTIONS"
        THEN /\ Free(r)
             /\ req' = [req EXCEPT ![r] =
                  answer(method, path, event.body, 200, [message |-> "OK"])]
             /\ UNCHANGED << locations, accepted, lastPut, evaluatorVars, tableVars,
                             clientVars >>
        ELSE IF event.body.raw = "bad"
        THEN /\ Free(r)
             /\ req' = [req EXCEPT ![r] =
                  answer(method, path, event.body, 400, ErrorBody("Invalid JSON body"))]
             /\ UNCHANGED << locations, accepted, lastPut, evaluatorVars, tableVars,
                             clientVars >>
        ELSE IF matchesWithId(path, "locations") /\ method = "GET"
        THEN getLocation(r, id, ok)
        ELSE IF matchesWithId(path, "locations") /\ method = "PUT"
        THEN saveLocation_get(r, id, body, ok)
        ELSE IF path = << "reminders" >> /\ method = "POST"
        THEN createReminder(r, body, ok)
        ELSE IF matchesWithId(path, "reminders") /\ method = "GET"
        THEN getReminder(r, id, ok)
        ELSE IF matchesWithId(path, "reminders") /\ method = "PUT"
        THEN updateReminder_get(r, id, body, ok)
        ELSE IF matchesWithId(path, "reminders") /\ method = "DELETE"
        THEN deleteReminder(r, id, ok)
        ELSE IF path = << "backups" >> /\ method = "POST"
        THEN createBackup(r, body, ok)
        ELSE IF path = << "suppliers" >> /\ method = "POST"
        THEN createSupplier(r, body, ok)
        ELSE IF matchesWithId(path, "suppliers") /\ method = "PUT"
        THEN updateSupplier_get(r, id, body, ok)
        ELSE IF matchesWithId(path, "suppliers") /\ method = "DELETE"
        THEN deleteSupplier(r, id, ok)
        ELSE /\ Free(r)
             /\ req' = [req EXCEPT ![r] =
                  answer(method, path, body, 404, ErrorBody("Not found"))]
             /\ UNCHANGED << locations, accepted, lastPut, evaluatorVars, tableVars,
                             clientVars >>

\* ============================================================== api client

Clients == {1}

IdleClient ==
    [pc |-> "idle", locationId |-> "", data |-> Null, backup |-> Null,
     outcome |-> "", result |-> Null]

\* api-client.js:113-114
client_EmptyState(data) ==
    /\ ~Has(data, "categories") \/ Len(data.categories) = 0
    /\ ~Has(data, "taskLists") \/ Len(data.taskLists) = 0

\* api-client.js:122-130
client_SuspiciousReduction(cached, data) ==
    \/ ProductCount(cached) > 10 /\ ProductCount(data) < 3
    \/ TaskCount(cached) > 10 /\ TaskCount(data) < 3

\* api-client.js:145: currentData.categories?.length > 0 || ...taskLists?.length > 0
client_HasContent(doc) ==
    LengthOr0(doc, "categories") > 0 \/ LengthOr0(doc, "taskLists") > 0

\* api-client.js:156: data.version || cached?.version || 0
client_version(data, cached) ==
    IF Has(data, "version") /\ data.version # 0 THEN data.version
    ELSE IF cached # Null /\ Has(cached, "version") /\ cached.version # 0
    THEN cached.version
    ELSE 0

\* api-client.js:86-91 and 153-157: the body as JSON.stringify writes it, a
\* key whose value is undefined being left out.
client_putBody(data, cached) ==
    [k \in ({"categories", "taskLists"} \cap DOMAIN data) \cup {"version"} |->
        IF k = "version" THEN client_version(data, cached) ELSE data[k]]

\* api-client.js:111-150, up to its first request: the two guards, then the
\* backup of the cached document or, with nothing cached, the PUT.  A call
\* that has returned keeps its outcome alone; its locals are gone.
client_saveLocation(c, locationId, data) ==
    /\ cl[c].pc = "idle"
    /\ req[c].pc = "idle"
    /\ LET cached == versionCache[c][locationId]
           call == [IdleClient EXCEPT !.locationId = locationId, !.data = data]
       IN  cl' = [cl EXCEPT ![c] =
             IF client_EmptyState(data) THEN [IdleClient EXCEPT !.outcome = "null"]
             ELSE IF cached # Null /\ client_SuspiciousReduction(cached, data)
             THEN [IdleClient EXCEPT !.outcome = "null"]
             ELSE IF cached # Null /\ client_HasContent(cached)
             THEN [call EXCEPT !.pc = "backup",
                               !.backup = Spread(cached, [location |-> locationId])]
             ELSE [call EXCEPT !.pc = "put"]]
    /\ UNCHANGED << gatewayVars, evaluatorVars, tableVars, versionCache, pollVars >>

\* api-client.js:146-149 and 339-341: POST /backups reaches the gateway.
client_backup_send(c, ok) ==
    /\ cl[c].pc = "backup"
    /\ req[c].pc = "idle"
    /\ createBackup(c, cl[c].backup, ok)

\* api-client.js:149: whatever the answer, and when the request never got an
\* answer, saveLocation goes on (.catch logs the error).
client_backup_done(c) ==
    /\ cl[c].pc = "backup"
    /\ req[c].pc \in {"idle", "done"}
    /\ cl' = [cl EXCEPT ![c].pc = "put"]
    /\ req' = [req EXCEPT ![c] = IdleReq]
    /\ UNCHANGED << locations, accepted, lastPut, evaluatorVars, tableVars, versionCache, pollVars >>

\* api-client.js:153-157: PUT /locations/{id} reaches the gateway.
client_put_send(c, ok) ==
    /\ cl[c].pc = "put"
    /\ req[c].pc = "idle"
    /\ saveLocation_get(c, cl[c].locationId,
           client_putBody(cl[c].data, versionCache[c][cl[c].locationId]), ok)

\* api-client.js:63-68 and 159-162: a 2xx answer is cached and returned, any
\* other answer, and a request that never got one, is thrown.
client_put_done(c) ==
    /\ cl[c].pc = "put"
    /\ req[c].pc \in {"idle", "done"}
    /\ req' = [req EXCEPT ![c] = IdleReq]
    /\ IF req[c].status \in 200..299
       THEN /\ versionCache' = [versionCache EXCEPT ![c][cl[c].locationId] = req[c].body]
            /\ cl' = [cl EXCEPT ![c] = [IdleClient EXCEPT !.outcome = "result",
                                                         !.result = req[c].body]]
       ELSE /\ cl' = [cl EXCEPT ![c] = [IdleClient EXCEPT !.outcome = "throw"]]
            /\ UNCHANGED versionCache
    /\ UNCHANGED << locations, accepted, lastPut, evaluatorVars, tableVars, pollVars >>

\* api-client.js:174-187: the initial load of subscribeLocation is issued.
client_load(c, locationId) ==
    /\ cl[c].pc = "idle"
    /\ req[c].pc = "idle"
    /\ cl' = [cl EXCEPT ![c] = [IdleClient EXCEPT !.pc = "load", !.locationId = locationId]]
    /\ UNCHANGED << gatewayVars, evaluatorVars, tableVars, versionCache, pollVars >>

\* api-client.js:104-106: GET /locations/{id} reaches the gateway.
client_load_send(c, ok) ==
    /\ cl[c].pc = "load"
    /\ req[c].pc = "idle"
    /\ getLocation(c, cl[c].locationId, ok)

\* api-client.js:174-187: the answer is cached, a failure is not.
client_load_done(c) ==
    /\ cl[c].pc = "load"
    /\ req[c].pc = "done"
    /\ req' = [req EXCEPT ![c] = IdleReq]
    /\ cl' = [cl EXCEPT ![c] = IdleClient]
    /\ versionCache' =
         IF req[c].status \in 200..299
         THEN [versionCache EXCEPT ![c][cl[c].locationId] = req[c].body]
         ELSE versionCache
    /\ UNCHANGED << locations, accepted, lastPut, evaluatorVars, tableVars, pollVars >>

InitTables ==
    /\ backups = {}
    /\ suppliers = [id \in SupplierIds |-> Null]
    /\ generated = [backup |-> 0, reminder |-> 0, supplier |-> 0]

\* -------------------------------------------- api client: subscriptions

\* api-client.js:170 `location-${locationId}` and 296 'reminders'
pollerId(kind, locationId) ==
    IF kind = "location" THEN << "location", locationId >> ELSE << "reminders" >>

PollerIds == { pollerId("location", l) : l \in LocationIds } \cup { pollerId("reminders", "") }

\* A subscription: the closure of one subscribeLocation or subscribeReminders
\* call (isSubscribed, lastCount), whether its interval is still set, the
\* position of its request (load: the initial load, wait: between polls,
\* poll: a poll's GET), and as history the times its interval fired, the
\* times its callback was invoked and the last value handed to it.
NoSub ==
    [pc |-> "none", kind |-> "", locationId |-> "", isSubscribed |-> FALSE,
     interval |-> FALSE, lastCount |-> 0, polls |-> 0, calls |-> 0, last |-> Null]

\* The subscriptions made so far.
Made(c) == { s \in Subs : subs[c][s].pc # "none" }

\* History: the times the intervals of client c have fired.
Fired(c) == LET RECURSIVE sum(_)
                sum(n) == IF n = 0 THEN 0 ELSE subs[c][n].polls + sum(n - 1)
            IN  sum(MaxSubs)

\* callback(data)
Callback(sub, data) == [sub EXCEPT !.calls = @ + 1, !.last = data]

\* api-client.js:169-171, 190-217: subscribeLocation up to its return: the
\* initial load is issued, the interval is set and recorded under the poller
\* id (Map.set replaces an entry of the same id).
subscribeLocation(c, s, locationId) ==
    /\ s = Cardinality(Made(c)) + 1
    /\ s \in Subs
    /\ subs' = [subs EXCEPT ![c][s] =
         [NoSub EXCEPT !.pc = "load", !.kind = "location", !.locationId = locationId,
                       !.isSubscribed = TRUE, !.interval = TRUE]]
    /\ activePollers' = [activePollers EXCEPT ![c][pollerId("location", locationId)] = s]
    /\ stopped' = [stopped EXCEPT ![c] = FALSE]
    /\ UNCHANGED << gatewayVars, evaluatorVars, tableVars, versionCache, cl, pollingPaused >>

\* api-client.js:295-305, 323-324: subscribeReminders up to its return.
subscribeReminders(c, s) ==
    /\ s = Cardinality(Made(c)) + 1
    /\ s \in Subs
    /\ subs' = [subs EXCEPT ![c][s] =
         [NoSub EXCEPT !.pc = "load", !.kind = "reminders", !.interval = TRUE]]
    /\ activePollers' = [activePollers EXCEPT ![c][pollerId("reminders", "")] = s]
    /\ stopped' = [stopped EXCEPT ![c] = FALSE]
    /\ UNCHANGED << gatewayVars, evaluatorVars, tableVars, versionCache, cl, pollingPaused >>

\* api-client.js:104-106, 267-269: the GET of a subscription (initial load or
\* poll) reaches the gateway.
sub_send(c, s, ok) ==
    /\ subs[c][s].pc \in {"load", "poll"}
    /\ req[SubReq(s)].pc = "idle"
    /\ IF subs[c][s].kind = "location"
       THEN getLocation(SubReq(s), subs[c][s].locationId, ok)
       ELSE listReminders(SubReq(s), ok)

\* api-client.js:174-187 and 300-306: the initial load is answered.  A 2xx
\* answer resolves, any other rejects (api-client.js:63-68).
sub_load_done(c, s) ==
    /\ subs[c][s].pc = "load"
    /\ req[SubReq(s)].pc = "done"
    /\ req' = [req EXCEPT ![SubReq(s)] = IdleReq]
    /\ LET sub == [subs[c][s] EXCEPT !.pc = "wait"]
           data == req[SubReq(s)].body
           resolved == req[SubReq(s)].status \in 200..299
       IN  IF sub.kind = "location"
           THEN IF resolved
                THEN IF ~sub.isSubscribed
                     THEN /\ subs' = [subs EXCEPT ![c][s] = sub]
                          /\ UNCHANGED versionCache
                     ELSE /\ versionCache' = [versionCache EXCEPT ![c][sub.locationId] = data]
                          /\ subs' = [subs EXCEPT ![c][s] = Callback(sub, data)]
                ELSE /\ subs' = [subs EXCEPT ![c][s] =
                          IF sub.isSubscribed
                          THEN Callback(sub, [categories |-> <<>>, taskLists |-> <<>>,
                                              version |-> 0])
                          ELSE sub]
                     /\ UNCHANGED versionCache
           ELSE /\ subs' = [subs EXCEPT ![c][s] =
                     IF resolved
                     THEN Callback([sub EXCEPT !.lastCount = Len(data.items)], data)
                     ELSE Callback(sub, [items |-> <<>>])]
                /\ UNCHANGED versionCache
    /\ UNCHANGED << locations, accepted, lastPut, evaluatorVars, tableVars, cl,
                    activePollers, pollingPaused, stopped >>

\* api-client.js:190-195 and 309-311: the interval of a subscription fires
\* (here only between two requests of the subscription).  A location poll
\* returns at once when unsubscribed or paused; a reminders poll has no guard.
poll_fire(c, s) ==
    /\ subs[c][s].pc = "wait"
    /\ subs[c][s].interval
    /\ Fired(c) < MaxPolls
    /\ subs' = [subs EXCEPT ![c][s] =
         [@ EXCEPT !.polls = @ + 1,
                   !.pc = IF /\ subs[c][s].kind = "location"
                             /\ (~subs[c][s].isSubscribed \/ pollingPaused[c])
                          THEN "wait" ELSE "poll"]]
    /\ UNCHANGED << gatewayVars, evaluatorVars, tableVars, versionCache, cl,
                    activePollers, pollingPaused, stopped >>

\* api-client.js:196-213 with the version test dropped: every answered poll
\* of a location is cached and handed to the callback.
poll_done_EveryAnswer(c, s) ==
    /\ subs[c][s].pc = "poll"
    /\ req[SubReq(s)].pc = "done"
    /\ req' = [req EXCEPT ![SubReq(s)] = IdleReq]
    /\ LET sub == [subs[c][s] EXCEPT !.pc = "wait"]
           data == req[SubReq(s)].body
           resolved == req[SubReq(s)].status \in 200..299
       IN  IF sub.kind = "location"
           THEN IF resolved /\ sub.isSubscribed
                THEN /\ versionCache' = [versionCache EXCEPT ![c][sub.locationId] = data]
                     /\ subs' = [subs EXCEPT ![c][s] = Callback(sub, data)]
                ELSE /\ subs' = [subs EXCEPT ![c][s] = sub]
                     /\ UNCHANGED versionCache
           ELSE /\ subs' = [subs EXCEPT ![c][s] =
                     IF resolved /\ Len(data.items) # sub.lastCount
                     THEN Callback([sub EXCEPT !.lastCount = Len(data.items)], data)
                     ELSE sub]
                /\ UNCHANGED versionCache
    /\ UNCHANGED << locations, accepted, lastPut, evaluatorVars, tableVars, cl,
                    activePollers, pollingPaused, stopped >>

\* api-client.js:196-213 without the second isSubscribed test (the one after
\* the awaited getLocation).
poll_done_NoRecheck(c, s) ==
    /\ subs[c][s].pc = "poll"
    /\ req[SubReq(s)].pc = "done"
    /\ req' = [req EXCEPT ![SubReq(s)] = IdleReq]
    /\ LET sub == [subs[c][s] EXCEPT !.pc = "wait"]
           data == req[SubReq(s)].body
           resolved == req[SubReq(s)].status \in 200..299
       IN  IF sub.kind = "location"
           THEN LET cached == versionCache[c][sub.locationId]
                IN  IF /\ resolved
                       /\ (cached = Null \/ data.version # cached.version)
                    THEN /\ versionCache' = [versionCache EXCEPT ![c][sub.locationId] = data]
                         /\ subs' = [subs EXCEPT ![c][s] = Callback(sub, data)]
                    ELSE /\ subs' = [subs EXCEPT ![c][s] = sub]
                         /\ UNCHANGED versionCache
           ELSE /\ subs' = [subs EXCEPT ![c][s] =
                     IF resolved /\ Len(data.items) # sub.lastCount
                     THEN Callback([sub EXCEPT !.lastCount = Len(data.items)], data)
                     ELSE sub]
                /\ UNCHANGED versionCache
    /\ UNCHANGED << locations, accepted, lastPut, evaluatorVars, tableVars, cl,
                    activePollers, pollingPaused, stopped >>

\* api-client.js:196-213 and 310-321: the poll's GET is answered.
poll_done(c, s) ==
    /\ subs[c][s].pc = "poll"
    /\ req[SubReq(s)].pc = "done"
    /\ req' = [req EXCEPT ![SubReq(s)] = IdleReq]
    /\ LET sub == [subs[c][s] EXCEPT !.pc = "wait"]
           data == req[SubReq(s)].body
           resolved == req[SubReq(s)].status \in 200..299
       IN  IF sub.kind = "location"
           THEN LET cached == versionCache[c][sub.locationId]
                IN  IF /\ resolved
                       /\ sub.isSubscribed
                       /\ (cached = Null \/ data.version # cached.version)
                    THEN /\ versionCache' = [versionCache EXCEPT ![c][sub.locationId] = data]
                         /\ subs' = [subs EXCEPT ![c][s] = Callback(sub, data)]
                    ELSE /\ subs' = [subs EXCEPT ![c][s] = sub]
                         /\ UNCHANGED versionCache
           ELSE /\ subs' = [subs EXCEPT ![c][s] =
                     IF resolved /\ Len(data.items) # sub.lastCount
                     THEN Callback([sub EXCEPT !.lastCount = Len(data.items)], data)
                     ELSE sub]
                /\ UNCHANGED versionCache
    /\ UNCHANGED << locations, accepted, lastPut, evaluatorVars, tableVars, cl,
                    activePollers, pollingPaused, stopped >>

\* api-client.js:220-225 and 326-329: the function subscribeLocation or
\* subscribeReminders returned is called (Map.delete removes whatever entry
\* the poller id has).
unsubscribe(c, s) ==
    /\ subs[c][s].pc # "none"
    /\ subs' = [subs EXCEPT ![c][s] =
         [@ EXCEPT !.isSubscribed = FALSE, !.interval = FALSE]]
    /\ activePollers' =
         [activePollers EXCEPT ![c][pollerId(subs[c][s].kind, subs[c][s].locationId)] = 0]
    /\ UNCHANGED << gatewayVars, evaluatorVars, tableVars, versionCache, cl,
                    pollingPaused, stopped >>

\* api-client.js:446-449
pausePolling(c) ==
    /\ pollingPaused' = [pollingPaused EXCEPT ![c] = TRUE]
    /\ UNCHANGED << gatewayVars, evaluatorVars, tableVars, versionCache, cl,
                    subs, activePollers, stopped >>

\* api-client.js:454-457
resumePolling(c) ==
    /\ pollingPaused' = [pollingPaused EXCEPT ![c] = FALSE]
    /\ UNCHANGED << gatewayVars, evaluatorVars, tableVars, versionCache, cl,
                    subs, activePollers, stopped >>

\* api-client.js:462-468: the interval of every entry is cleared and the map
\* emptied.
stopAllPolling(c) ==
    /\ subs' = [subs EXCEPT ![c] =
         [s \in Subs |->
            IF \E p \in PollerIds : activePollers[c][p] = s
            THEN [subs[c][s] EXCEPT !.interval = FALSE]
            ELSE subs[c][s]]]
    /\ activePollers' = [activePollers EXCEPT ![c] = [p \in PollerIds |-> 0]]
    /\ stopped' = [stopped EXCEPT ![c] = TRUE]
    /\ UNCHANGED << gatewayVars, evaluatorVars, tableVars, versionCache, cl, pollingPaused >>

InitClient ==
    /\ versionCache = [c \in Clients |-> [l \in LocationIds |-> Null]]
    /\ cl = [c \in Clients |-> IdleClient]
    /\ subs = [c \in Clients |-> [s \in Subs |-> NoSub]]
    /\ activePollers = [c \in Clients |-> [p \in PollerIds |-> 0]]
    /\ pollingPaused = [c \in Clients |-> FALSE]
    /\ stopped = [c \in Clients |-> FALSE]

\* ===================================================== Reminder Evaluator

\* Strings the evaluator builds or compares character by character (times,
\* dates, ids, sent keys) are sequences of one-character strings.

Digits == << "0", "1", "2", "3", "4", "5", "6", "7", "8", "9" >>

\* Number.prototype.toString()
RECURSIVE toString(_)
toString(n) ==
    IF n < 10 THEN << Digits[n + 1] >>
    ELSE toString(n \div 10) \o << Digits[(n % 10) + 1] >>

\* String.prototype.padStart(2, '0')
padStart2(str) == IF Len(str) < 2 THEN << "0" >> \o str ELSE str

\* reminder-checker/index.js:27, transliterated (Sunday first)
DAY_NAMES ==
    << "rishon", "sheni", "shlishi", "revii", "hamishi", "shishi", "shabat" >>

\* The stretch of wall-clock time the model runs over: November 2026, from
\* Monday the 2nd, between 09:00 and 09:MaxMinute.
Calendar == [year |-> 2026, month |-> 11, firstDay |-> 2, hours |-> 9]

Days == Calendar.firstDay .. (Calendar.firstDay + MaxDays - 1)

\* Date.prototype.getDay() in November 2026, whose 1st is a Sunday (0).
getDay(day) == (day - 1) % 7

\* reminder-checker/index.js:258-263
formatDate(day) ==
    padStart2(toString(day)) \o << "/" >> \o padStart2(toString(Calendar.month))
        \o << "/" >> \o toString(Calendar.year)

\* reminder-checker/index.js:46-48
formatTime(hours, minutes) ==
    padStart2(toString(hours)) \o << ":" >> \o padStart2(toString(minutes))

\* currentDateStr.replace(/\//g, '-')
replaceSlashes(str) == [i \in DOMAIN str |-> IF str[i] = "/" THEN "-" ELSE str[i]]

\* reminder-checker/index.js:83
sentKey(id, currentDateStr) == id \o << "-" >> \o replaceSlashes(currentDateStr)

ReminderIds == { << "a" >>, << "b" >> }

SentKeys == { sentKey(id, formatDate(d)) : id \in ReminderIds, d \in Days }

Ticks == {1, 2}

\* Array.prototype.includes
includes(arr, x) == \E i \in DOMAIN arr : arr[i] = x

\* reminder-checker/index.js:60-76, without the enabled filter of the scan:
\* a missing days key is `reminder.days &&` failing, a missing date key is
\* date null.
isDue_AnyDay(reminder, currentTime, currentDayName, currentDateStr) ==
    /\ reminder.time = currentTime
    /\ \/ reminder.type = "recurring" /\ Has(reminder, "days")
       \/ reminder.type = "one-time" /\ Has(reminder, "date")
            /\ reminder.date = currentDateStr

isDue(reminder, currentTime, currentDayName, currentDateStr) ==
    /\ reminder.time = currentTime
    /\ \/ /\ reminder.type = "recurring"
          /\ Has(reminder, "days") /\ includes(reminder.days, currentDayName)
       \/ /\ reminder.type = "one-time"
          /\ Has(reminder, "date") /\ reminder.date = currentDateStr

\* reminder-checker/index.js:140-144 with any secret passed on as it is.
checkSecret_Unchecked(sec) == sec

\* reminder-checker/index.js:140-144 and 146-148: null when there is no secret
\* (ResourceNotFoundException) or when botToken or chatId is missing or empty.
checkSecret(sec) ==
    IF sec = Null THEN Null
    ELSE IF ~Has(sec, "botToken") \/ sec.botToken = "" THEN Null
    ELSE IF ~Has(sec, "chatId") \/ sec.chatId = "" THEN Null
    ELSE sec

IdleTick ==
    [pc |-> "idle", currentTime |-> <<>>, currentDayName |-> "",
     currentDateStr |-> <<>>, checked |-> 0, due |-> <<>>, i |-> 0,
     sentCount |-> 0, item |-> Null, status |-> 0, body |-> Null]

\* The handler's return value (reminder-checker/index.js:40, 109-121, 125-128).
tickDone(t, statusCode, body) ==
    [tk[t] EXCEPT !.pc = "done", !.status = statusCode, !.body = body,
                  !.item = Null]

\* reminder-checker/index.js:109-118
tickResult(t, sentCount) ==
    [checked |-> tk[t].checked, due |-> Len(tk[t].due), sent |-> sentCount,
     time |-> tk[t].currentTime, day |-> tk[t].currentDayName]

\* The for loop's next round (reminder-checker/index.js:82), or the result
\* after its last one.
nextDue(t, sentCount) ==
    IF tk[t].i < Len(tk[t].due)
    THEN [tk[t] EXCEPT !.pc = "check", !.i = @ + 1, !.sentCount = sentCount,
                       !.item = Null]
    ELSE [tickDone(t, 200, tickResult(t, sentCount)) EXCEPT !.sentCount = sentCount]

TickFree(t) == tk[t].pc \in {"idle", "done"}

currentKey(t) == sentKey(tk[t].due[tk[t].i].id, tk[t].currentDateStr)

\* One more failed call, within the budget of failures.
Fails(ok) ==
    /\ ~ok => failures < MaxFailures
    /\ failures' = IF ok THEN failures ELSE failures + 1

\* The wall clock moves on by a minute, or to 09:00 of the next day.
advanceClock ==
    /\ \/ /\ clock.minutes < MaxMinute
          /\ clock' = [clock EXCEPT !.minutes = @ + 1]
       \/ /\ clock.day + 1 \in Days
          /\ clock' = [day |-> clock.day + 1, minutes |-> 0]
    /\ UNCHANGED << gatewayVars, tableVars, clientVars, reminders, sentReminders, secret, tk, started,
                    failures, notifier >>

\* reminder-checker/index.js:32-53: the trigger, getTelegramCredentials and,
\* with credentials, the reading of the clock.  ok: whether the secrets call
\* succeeds (a failure other than ResourceNotFoundException is rethrown).
handler_credentials(t, ok) ==
    /\ TickFree(t)
    /\ started < MaxTicks
    /\ started' = started + 1
    /\ Fails(ok)
    /\ tk' = [tk EXCEPT ![t] =
         IF ~ok THEN [IdleTick EXCEPT !.pc = "done", !.status = 500,
                                      !.body = ErrorBody("secrets")]
         ELSE IF checkSecret(secret) = Null
         THEN [IdleTick EXCEPT !.pc = "done", !.status = 200,
                               !.body = [message |-> "Telegram not configured"]]
         ELSE [IdleTick EXCEPT
                 !.pc = "scan",
                 !.currentTime = formatTime(Calendar.hours, clock.minutes),
                 !.currentDayName = DAY_NAMES[getDay(clock.day) + 1],
                 !.currentDateStr = formatDate(clock.day)]]
    /\ UNCHANGED << gatewayVars, tableVars, clientVars, reminders, sentReminders, secret, clock, notifier >>

\* reminder-checker/index.js:156-165: the items with enabled = true, in the
\* order the scan returns them.
getEnabledReminders(order) ==
    SelectSeq([i \in DOMAIN order |-> reminders[order[i]]],
              LAMBDA item : item # Null /\ item.enabled = TRUE)

ScanOrders == { << << "a" >>, << "b" >> >>, << << "b" >>, << "a" >> >> }

\* reminder-checker/index.js:55-78: the scan and the filter.
handler_scan(t, order, ok) ==
    /\ tk[t].pc = "scan"
    /\ Fails(ok)
    /\ tk' = [tk EXCEPT ![t] =
         IF ~ok THEN tickDone(t, 500, ErrorBody("store"))
         ELSE LET items == getEnabledReminders(order)
                  due == SelectSeq(items, LAMBDA item :
                           isDue(item, tk[t].currentTime, tk[t].currentDayName,
                                 tk[t].currentDateStr))
              IN  IF due = <<>>
                  THEN [tk[t] EXCEPT
                          !.pc = "done", !.checked = Len(items), !.status = 200,
                          !.body = [checked |-> Len(items), due |-> 0, sent |-> 0,
                                    time |-> tk[t].currentTime,
                                    day |-> tk[t].currentDayName]]
                  ELSE [tk[t] EXCEPT
                          !.pc = "check", !.checked = Len(items), !.due = due,
                          !.i = 1]]
    /\ UNCHANGED << gatewayVars, tableVars, clientVars, reminders, sentReminders, secret, clock, started,
                    notifier >>

Bump(key, field) == [notifier EXCEPT ![key][field] = @ + 1]

\* reminder-checker/index.js:170-182: a failed read is logged and answers false.
checkIfSent_Never(key, ok) == FALSE

checkIfSent(key, ok) == ok /\ \E m \in sentReminders : m.id = key

\* reminder-checker/index.js:83-90
handler_checkIfSent(t, ok) ==
    /\ tk[t].pc = "check"
    /\ Fails(ok)
    /\ notifier' = Bump(currentKey(t), "checks")
    /\ tk' = [tk EXCEPT ![t] =
         IF checkIfSent(currentKey(t), ok) THEN nextDue(t, tk[t].sentCount)
         ELSE [tk[t] EXCEPT !.pc = "send"]]
    /\ UNCHANGED << gatewayVars, tableVars, clientVars, reminders, sentReminders, secret, clock, started >>

\* reminder-checker/index.js:93-106 with the `if (success)` test dropped: the
\* marker is written whatever the Notifier reports.
handler_send_MarkAnyway(t, success) ==
    /\ tk[t].pc = "send"
    /\ notifier' =
         [notifier EXCEPT ![currentKey(t)] =
            [@ EXCEPT !.calls = @ + 1, !.delivered = IF success THEN @ + 1 ELSE @]]
    /\ tk' = [tk EXCEPT ![t] = [tk[t] EXCEPT !.pc = "mark"]]
    /\ UNCHANGED << gatewayVars, tableVars, clientVars, reminders, sentReminders, secret, clock, started,
                    failures >>

\* reminder-checker/index.js:93-95 and 225-253: success is what the Notifier
\* reports (false for a non-ok answer or a network error).
handler_send(t, success) ==
    /\ tk[t].pc = "send"
    /\ notifier' =
         [notifier EXCEPT ![currentKey(t)] =
            [@ EXCEPT !.calls = @ + 1, !.delivered = IF success THEN @ + 1 ELSE @]]
    /\ tk' = [tk EXCEPT ![t] =
         IF success THEN [tk[t] EXCEPT !.pc = "mark"]
         ELSE nextDue(t, tk[t].sentCount)]
    /\ UNCHANGED << gatewayVars, tableVars, clientVars, reminders, sentReminders, secret, clock, started,
                    failures >>

\* reminder-checker/index.js:187-199 (sentAt and the 7-day expiresAt lie
\* beyond the days the model runs over and are left out)
markerItem(key, reminderId) == [id |-> key, reminderId |-> reminderId]

\* reminder-checker/index.js:96-105 with markAsSent's failure caught and
\* logged like checkIfSent's: the loop goes on with the next due reminder.
handler_markAsSent_Swallowed(t, ok) ==
    /\ tk[t].pc = "mark"
    /\ Fails(ok)
    /\ IF ~ok
       THEN /\ tk' = [tk EXCEPT ![t] = nextDue(t, tk[t].sentCount)]
            /\ UNCHANGED sentReminders
       ELSE /\ sentReminders' =
                 { m \in sentReminders : m.id # currentKey(t) }
                    \cup { markerItem(currentKey(t), tk[t].due[tk[t].i].id) }
            /\ tk' = [tk EXCEPT ![t] =
                 IF tk[t].due[tk[t].i].type = "one-time"
                 THEN [tk[t] EXCEPT !.pc = "disableGet", !.sentCount = @ + 1]
                 ELSE nextDue(t, tk[t].sentCount + 1)]
    /\ UNCHANGED << gatewayVars, tableVars, clientVars, reminders, secret, clock, started, notifier >>

\* reminder-checker/index.js:96-105
handler_markAsSent(t, ok) ==
    /\ tk[t].pc = "mark"
    /\ Fails(ok)
    /\ IF ~ok
       THEN /\ tk' = [tk EXCEPT ![t] = tickDone(t, 500, ErrorBody("store"))]
            /\ UNCHANGED sentReminders
       ELSE /\ sentReminders' =
                 { m \in sentReminders : m.id # currentKey(t) }
                    \cup { markerItem(currentKey(t), tk[t].due[tk[t].i].id) }
            /\ tk' = [tk EXCEPT ![t] =
                 IF tk[t].due[tk[t].i].type = "one-time"
                 THEN [tk[t] EXCEPT !.pc = "disableGet", !.sentCount = @ + 1]
                 ELSE nextDue(t, tk[t].sentCount + 1)]
    /\ UNCHANGED << gatewayVars, tableVars, clientVars, reminders, secret, clock, started, notifier >>

\* reminder-checker/index.js:204-210: disableReminder's GetCommand.
handler_disableGet(t, ok) ==
    /\ tk[t].pc = "disableGet"
    /\ Fails(ok)
    /\ tk' = [tk EXCEPT ![t] =
         IF ~ok THEN tickDone(t, 500, ErrorBody("store"))
         ELSE IF reminders[tk[t].due[tk[t].i].id] # Null
         THEN [tk[t] EXCEPT !.pc = "disablePut",
                            !.item = reminders[tk[t].due[tk[t].i].id]]
         ELSE nextDue(t, tk[t].sentCount)]
    /\ UNCHANGED << gatewayVars, tableVars, clientVars, reminders, sentReminders, secret, clock, started,
                    notifier >>

\* reminder-checker/index.js:211-218 with the item put back as it was read.
disabledItem_Unchanged(item) == item

\* reminder-checker/index.js:211-218 without the spread of result.Item: the
\* put item holds the key and the flag alone.
disabledItem_KeyAndFlag(item) == [id |-> item.id, enabled |-> FALSE]

\* reminder-checker/index.js:211-218 (updatedAt, a wall-clock stamp no
\* handler reads, is left out)
disabledItem(item) == [item EXCEPT !.enabled = FALSE]

\* reminder-checker/index.js:211-218: disableReminder's PutCommand.
handler_disablePut(t, ok) ==
    /\ tk[t].pc = "disablePut"
    /\ Fails(ok)
    /\ IF ~ok
       THEN /\ tk' = [tk EXCEPT ![t] = tickDone(t, 500, ErrorBody("store"))]
            /\ UNCHANGED reminders
       ELSE /\ reminders' = [reminders EXCEPT ![tk[t].item.id] = disabledItem(tk[t].item)]
            /\ tk' = [tk EXCEPT ![t] = nextDue(t, tk[t].sentCount)]
    /\ UNCHANGED << gatewayVars, tableVars, clientVars, sentReminders, secret, clock, started, notifier >>

\* ------------------------------------------------- the evaluator's inputs

T0900 == << "0", "9", ":", "0", "0" >>

T0901 == << "0", "9", ":", "0", "1" >>

D0211 == << "0", "2", "/", "1", "1", "/", "2", "0", "2", "6" >>

D0311 == << "0", "3", "/", "1", "1", "/", "2", "0", "2", "6" >>

Recurring(id, time, days, enabled) ==
    [id |-> id, title |-> "title", time |-> time, type |-> "recurring",
     enabled |-> enabled, days |-> days]

OneTime(id, time, date, enabled) ==
    [id |-> id, title |-> "title", time |-> time, type |-> "one-time",
     enabled |-> enabled, days |-> <<>>, date |-> date]

\* What the reminders table may hold under an id at the start.
RemindersA(id) ==
    { Recurring(id, T0900, << "sheni" >>, TRUE),
      Recurring(id, T0901, << "sheni", "shlishi" >>, TRUE),
      Recurring(id, T0900, << "sheni" >>, FALSE),
      Recurring(id, << "9", ":", "0", "0" >>, << "sheni" >>, TRUE),
      OneTime(id, T0900, D0211, TRUE),
      OneTime(id, T0901, D0311, TRUE),
      [id |-> id, title |-> "title", time |-> T0900, type |-> "recurring",
       enabled |-> TRUE],
      [id |-> id, title |-> "title", time |-> T0900, type |-> "weekly",
       enabled |-> TRUE, days |-> << "sheni" >>, date |-> D0211] }

RemindersB(id) ==
    { Null,
      Recurring(id, T0900, << "sheni", "shlishi" >>, TRUE),
      OneTime(id, T0900, D0211, TRUE) }

Secrets ==
    { Null,
      [botToken |-> "token", chatId |-> "chat"],
      [botToken |-> "token"],
      [botToken |-> "", chatId |-> "chat"] }

InitEvaluator ==
    /\ \E a \in RemindersA(<< "a" >>), b \in RemindersB(<< "b" >>) :
         reminders = [id \in ReminderIds |-> IF id = << "a" >> THEN a ELSE b]
    /\ sentReminders = {}
    /\ secret \in Secrets
    /\ clock = [day |-> Calendar.firstDay, minutes |-> 0]
    /\ tk = [t \in Ticks |-> IdleTick]
    /\ started = 0
    /\ failures = 0
    /\ notifier = [k \in SentKeys |-> [checks |-> 0, calls |-> 0, delivered |-> 0]]

\* --------------------------------------------------------- specifications

\* Gateway runs leave the evaluator's tables as deployed: no reminder, no
\* marker, no secret.
Init ==
    /\ InitGateway
    /\ InitTables
    /\ InitClient
    /\ reminders = [id \in ReminderIds |-> Null]
    /\ sentReminders = {}
    /\ secret = Null
    /\ clock = [day |-> Calendar.firstDay, minutes |-> 0]
    /\ tk = [t \in Ticks |-> IdleTick]
    /\ started = 0
    /\ failures = 0
    /\ notifier = [k \in SentKeys |-> [checks |-> 0, calls |-> 0, delivered |-> 0]]

\* The gateway serving the location routes, one invocation at a time.
GetRequest == \E l \in LocationIds, ok \in BOOLEAN : getLocation(1, l, ok)

SaveRequest ==
    \E l \in LocationIds, data \in Bodies \cup {Null}, ok \in BOOLEAN :
        saveLocation_get(1, l, data, ok)

SavePut == \E ok \in BOOLEAN : saveLocation_put(1, ok)

Next == GetRequest \/ SaveRequest \/ SavePut

Spec == Init /\ [][Next]_vars

\* The same store served by the build of lambda/index.js as well.
LambdaSaveRequest ==
    \E l \in LocationIds, data \in Bodies \cup {Null}, ok \in BOOLEAN :
        lambda_saveLocation(1, l, data, ok)

NextLambda == GetRequest \/ SaveRequest \/ SavePut \/ LambdaSaveRequest

SpecLambda == Init /\ [][NextLambda]_vars

\* The evaluator, its ticks one after the other (slot 1 alone).
TickSteps(t) ==
    \/ \E ok \in BOOLEAN : handler_credentials(t, ok)
    \/ \E order \in ScanOrders, ok \in BOOLEAN : handler_scan(t, order, ok)
    \/ \E ok \in BOOLEAN : handler_checkIfSent(t, ok)
    \/ \E success \in BOOLEAN : handler_send(t, success)
    \/ \E ok \in BOOLEAN : handler_markAsSent(t, ok)
    \/ \E ok \in BOOLEAN : handler_disableGet(t, ok)
    \/ \E ok \in BOOLEAN : handler_disablePut(t, ok)

InitTicks == InitGateway /\ InitTables /\ InitClient /\ InitEvaluator

NextTicks == advanceClock \/ TickSteps(1)

SpecTicks == InitTicks /\ [][NextTicks]_vars

\* The evaluator with invocations that may overlap (both slots).
NextOverlap == advanceClock \/ \E t \in Ticks : TickSteps(t)

SpecOverlap == InitTicks /\ [][NextOverlap]_vars

\* The api client of one device (slot 1 carries its requests) next to a
\* second device that calls the gateway directly (slot 2).
ClientDatas ==
    { [categories |-> Categories(11), taskLists |-> TaskLists(3)],
      [categories |-> Categories(4), taskLists |-> <<>>],
      [categories |-> Categories(2), taskLists |-> <<>>],
      [categories |-> <<>>, taskLists |-> <<>>],
      [taskLists |-> TaskLists(3), version |-> MaxVersion] }

DirectBodies ==
    { [categories |-> Categories(11), taskLists |-> <<>>],
      [categories |-> Categories(3), taskLists |-> TaskLists(2), version |-> MaxVersion] }

BackupBodies ==
    { Null, [location |-> "isgav", categories |-> Categories(4), taskLists |-> <<>>] }

ClientSteps(c) ==
    \/ \E l \in LocationIds, data \in ClientDatas : client_saveLocation(c, l, data)
    \/ \E ok \in BOOLEAN : client_backup_send(c, ok)
    \/ client_backup_done(c)
    \/ \E ok \in BOOLEAN : client_put_send(c, ok)
    \/ \E ok \in BOOLEAN : saveLocation_put(c, ok)
    \/ client_put_done(c)
    \/ \E l \in LocationIds : client_load(c, l)
    \/ \E ok \in BOOLEAN : client_load_send(c, ok)
    \/ client_load_done(c)

DirectSteps(r) ==
    \/ \E l \in LocationIds, data \in DirectBodies, ok \in BOOLEAN :
          saveLocation_get(r, l, data, ok)
    \/ \E ok \in BOOLEAN : saveLocation_put(r, ok)
    \/ \E data \in BackupBodies, ok \in BOOLEAN : createBackup(r, data, ok)

NextClient == ClientSteps(1) \/ DirectSteps(2)

SpecClient == Init /\ [][NextClient]_vars

\* Two devices saving through the gateway at once (both slots).
RaceBodies ==
    { [categories |-> c, taskLists |-> <<>>, version |-> v] :
         c \in { Categories(2), Categories(11) }, v \in 0..MaxVersion }
    \cup { [categories |-> <<>>, taskLists |-> TaskLists(3)],
           [version |-> MaxVersion] }

RaceSteps(r) ==
    \/ \E l \in LocationIds, data \in RaceBodies, ok \in BOOLEAN :
          saveLocation_get(r, l, data, ok)
    \/ \E ok \in BOOLEAN : saveLocation_put(r, ok)
    \/ \E l \in LocationIds, ok \in BOOLEAN : getLocation(r, l, ok)

NextRace == \E r \in Reqs : RaceSteps(r)

SpecRace == Init /\ [][NextRace]_vars

\* The api client of one device with one subscription to a location, next to
\* a second device that saves through the gateway directly (slot 2).
PollBodies ==
    { [categories |-> Categories(2), taskLists |-> <<>>, version |-> 0],
      [categories |-> Categories(4), taskLists |-> <<>>, version |-> 0],
      [categories |-> Categories(4), taskLists |-> <<>>, version |-> 1] }

SubscriptionSteps(c, s) ==
    \/ \E l \in LocationIds : subscribeLocation(c, s, l)
    \/ \E ok \in BOOLEAN : sub_send(c, s, ok)
    \/ sub_load_done(c, s)
    \/ poll_fire(c, s)
    \/ poll_done(c, s)
    \/ unsubscribe(c, s)

VisibilitySteps(c) == pausePolling(c) \/ resumePolling(c)

WriterSteps(r) ==
    \/ \E l \in LocationIds, data \in PollBodies : saveLocation_get(r, l, data, TRUE)
    \/ saveLocation_put(r, TRUE)

NextPoll ==
    SubscriptionSteps(1, 1) \/ VisibilitySteps(1) \/ WriterSteps(2)

SpecPoll == Init /\ [][NextPoll]_vars

\* The api client of one device alone: its saveLocation calls (slot 1) next
\* to its one subscription.
SaveDatas ==
    { [categories |-> Categories(n), taskLists |-> <<>>] : n \in {2, 4} }

SaveSteps(c) ==
    \/ \E l \in LocationIds, data \in SaveDatas : client_saveLocation(c, l, data)
    \/ \E ok \in BOOLEAN : client_backup_send(c, ok)
    \/ client_backup_done(c)
    \/ \E ok \in BOOLEAN : client_put_send(c, ok)
    \/ \E ok \in BOOLEAN : saveLocation_put(c, ok)
    \/ client_put_done(c)

NextPollSave == SubscriptionSteps(1, 1) \/ SaveSteps(1)

SpecPollSave == Init /\ [][NextPollSave]_vars

\* The evaluator next to the gateway's DELETE (slot 1) and PUT (slot 2) of
\* /reminders/a, from a table that holds one one-time reminder due at 09:00
\* of the first day, with the Notifier configured.
InitDelete ==
    /\ InitGateway
    /\ InitTables
    /\ InitClient
    /\ reminders = [id \in ReminderIds |->
                      IF id = << "a" >> THEN OneTime(id, T0900, D0211, TRUE) ELSE Null]
    /\ sentReminders = {}
    /\ secret = [botToken |-> "token", chatId |-> "chat"]
    /\ clock = [day |-> Calendar.firstDay, minutes |-> 0]
    /\ tk = [t \in Ticks |-> IdleTick]
    /\ started = 0
    /\ failures = 0
    /\ notifier = [k \in SentKeys |-> [checks |-> 0, calls |-> 0, delivered |-> 0]]

NextDelete ==
    \/ TickSteps(1)
    \/ \E ok \in BOOLEAN : deleteReminder(1, "a", ok)
    \/ \E data \in { [title |-> "other"] }, ok \in BOOLEAN :
          updateReminder_get(2, "a", data, ok)
    \/ \E ok \in BOOLEAN : updateReminder_put(2, ok)

SpecDelete == InitDelete /\ [][NextDelete]_vars

\* The api client of one device with every subscription it may make, to a
\* location or to the reminders, and stopAllPolling; no one saves.
PollerSteps(c) ==
    \/ \E s \in Subs, l \in LocationIds : subscribeLocation(c, s, l)
    \/ \E s \in Subs : subscribeReminders(c, s)
    \/ \E s \in Subs, ok \in BOOLEAN : sub_send(c, s, ok)
    \/ \E s \in Subs : sub_load_done(c, s)
    \/ \E s \in Subs : poll_fire(c, s)
    \/ \E s \in Subs : poll_done(c, s)
    \/ \E s \in Subs : unsubscribe(c, s)
    \/ stopAllPolling(c)

NextStop == PollerSteps(1)

SpecStop == Init /\ [][NextStop]_vars

\* The gateway serving its routes through the handler, one invocation at a
\* time.
Event(method, path, body) == [httpMethod |-> method, path |-> path, body |-> body]

ReminderBodies ==
    { [title |-> "title"],
      [time |-> T0900],
      [title |-> "", time |-> T0900],
      [title |-> "title", time |-> T0900],
      [title |-> "title", time |-> T0900, enabled |-> FALSE, type |-> "one-time",
       date |-> D0211, id |-> << "b" >>, days |-> << "sheni" >>] }

ReminderUpdates == { [title |-> "other", enabled |-> FALSE, id |-> << "b" >>] }

SupplierBodies == { [name |-> "name"], [phone |-> "phone"] }

SupplierUpdates == { [phone |-> "phone"] }

RoutePaths ==
    { << "locations", "isgav" >>, << "reminders" >>, << "suppliers", "sup-1" >> }

RouteEvents ==
    { Event("OPTIONS", p, b) :
        p \in RoutePaths \cup { << "orders" >>, << "nowhere" >> },
        b \in { NoBody, BadJson } }
    \cup { Event(m, p, BadJson) : m \in {"PUT", "POST"}, p \in RoutePaths }
    \cup { Event("GET", << "locations", "isgav" >>, NoBody) }
    \cup { Event("PUT", << "locations", "isgav" >>, b) :
             b \in { NoBody, Json([version |-> MaxVersion]) } }
    \cup { Event("POST", << "reminders" >>, b) :
             b \in { NoBody } \cup { Json(d) : d \in ReminderBodies } }
    \cup { Event(m, << "reminders", "a" >>, NoBody) : m \in {"GET", "DELETE", "PUT"} }
    \cup { Event("PUT", << "reminders", "a" >>, Json(d)) : d \in ReminderUpdates }
    \cup { Event(m, << "reminders", "b" >>, NoBody) : m \in {"DELETE", "PUT"} }
    \cup { Event("POST", << "backups" >>, b) :
             b \in { NoBody, Json([location |-> "isgav", categories |-> Categories(4)]) } }
    \cup { Event("POST", << "suppliers" >>, b) :
             b \in { NoBody } \cup { Json(d) : d \in SupplierBodies } }
    \cup { Event(m, << "suppliers", "sup-1" >>, NoBody) : m \in {"PUT", "DELETE"} }
    \cup { Event("PUT", << "suppliers", "sup-1" >>, Json(d)) : d \in SupplierUpdates }
    \cup { Event("GET", << "nowhere" >>, NoBody),
           Event("DELETE", << "locations", "isgav" >>, NoBody),
           Event("GET", << "suppliers", "sup-1" >>, NoBody),
           Event("POST", << "reminders", "a" >>, Json([title |-> "title"])),
           Event("PUT", << "backups" >>, NoBody) }

\* The saves of location documents are left to the specifications above:
\* here a PUT /locations/{id} comes without a body or with an empty state.
NextRoutes ==
    \/ \E event \in RouteEvents, ok \in BOOLEAN : handler(1, event, ok)
    \/ \E ok \in BOOLEAN : updateReminder_put(1, ok)
    \/ \E ok \in BOOLEAN : updateSupplier_put(1, ok)

SpecRoutes == Init /\ [][NextRoutes]_vars

\* ------------------------------------------------ claims: the Save Guard

\* A step in which slot r takes a PUT and runs it up to its first answer or
\* up to its PutCommand.
SaveArrives(r) ==
    /\ Free(r)
    /\ req'[r] # req[r]
    /\ req'[r].method = "PUT"
    /\ req'[r].data # Null

\* C1: a save whose categories and taskLists are both empty or missing is
\* answered with a rejection and leaves the stored document, version
\* included, as it was, whichever build of the gateway serves it.
C1_EmptySaveRejected ==
    [][\A r \in Reqs :
         (SaveArrives(r) /\ EmptyState(req'[r].data))
            => (req'[r].pc = "done" /\ req'[r].status >= 400 /\ locations' = locations)]_vars

\* C2: a non-empty save whose guard read succeeded is answered 400, with the
\* store untouched, exactly when a document is stored and (it holds more than
\* 10 products and fewer than 3 are proposed, or it holds more than 10 tasks
\* and fewer than 3 are proposed); otherwise it goes on to its PutCommand,
\* which stores the proposed item.  With 11 products and no tasks stored, 2
\* proposed products are rejected and 4 are not.
C2_ShrinkGuard ==
    [][\A r \in Reqs :
         /\ (SaveArrives(r) /\ ~EmptyState(req'[r].data) /\ req'[r].status # 500)
              => LET cur == locations[req'[r].id]
                     new == req'[r].data
                     shrink ==
                       /\ cur # Null
                       /\ \/ ProductCount(cur) > 10 /\ ProductCount(new) < 3
                          \/ TaskCount(cur) > 10 /\ TaskCount(new) < 3
                 IN  /\ locations' = locations
                     /\ shrink <=> (req'[r].pc = "done" /\ req'[r].status = 400)
                     /\ ~shrink <=> req'[r].pc = "put"
                     /\ (cur # Null /\ ProductCount(cur) = 11 /\ TaskCount(cur) = 0
                           /\ TaskCount(new) = 0)
                          => /\ ProductCount(new) = 2 => req'[r].status = 400
                             /\ ProductCount(new) = 4 => req'[r].pc = "put"
         /\ (req[r].pc = "put" /\ req'[r].status = 200)
              => locations'[req[r].id] = req[r].item]_vars

\* C2's case: 11 products are stored and a proposal of 2 products has just
\* been answered 400.
C2_Witness ==
    \E r \in Reqs :
        /\ req[r].pc = "done" /\ req[r].method = "PUT" /\ req[r].status = 400
        /\ req[r].data # Null /\ ~EmptyState(req[r].data)
        /\ ProductCount(req[r].data) = 2
        /\ locations[req[r].id] # Null
        /\ ProductCount(locations[req[r].id]) = 11
        /\ TaskCount(locations[req[r].id]) = 0

\* C3: after N accepted saves to a location that started with no document,
\* the stored version is N.
C3_VersionCountsSaves ==
    \A l \in LocationIds : locations[l] # Null => locations[l].version = accepted[l]

\* C4: every accepted write stores a version strictly greater than the one
\* stored before it (0 when nothing was stored).
C4_VersionIncreases ==
    [][\A l \in LocationIds :
         accepted'[l] = accepted[l] + 1 => locations'[l].version > StoredVersion(l)]_vars

\* C5: a GET answered after an accepted PUT, with no write in between, returns
\* the categories and taskLists of that PUT and the version stored before the
\* PUT plus one.
C5_GetAfterPut ==
    [][\A r \in Reqs :
         (/\ Free(r) /\ req'[r] # req[r]
          /\ req'[r].method = "GET" /\ req'[r].status = 200
          /\ lastPut[req'[r].id] # Null)
            => LET put == lastPut[req'[r].id]
               IN  /\ req'[r].body.categories = ArrayOrEmpty(put.data, "categories")
                   /\ req'[r].body.taskLists = ArrayOrEmpty(put.data, "taskLists")
                   /\ req'[r].body.version = put.before + 1]_vars

\* ------------------------------------------ claims: the Reminder Evaluator

MarkersOf(key) == { m \in sentReminders : m.id = key }

\* The sent key of reminder id on day d.
KeyOn(id, d) == sentKey(id, formatDate(d))

\* C6: a reminder is delivered (a successful Notifier call) at most once per
\* calendar day, however its ticks interleave; stated for the runs in which
\* no store or secrets call fails.
C6_AtMostOncePerDay ==
    \A k \in SentKeys : failures = 0 => notifier[k].delivered <= 1

\* C7: when two ticks, one after the other, have both found an enabled
\* recurring reminder due on a day, every Notifier call succeeding and no
\* store call failing, there has been exactly one Notifier call and there is
\* exactly one SentMarker for that reminder and day: the second tick found
\* the marker and skipped the reminder.
C7_SecondTickSkips ==
    \A id \in ReminderIds, d \in Days :
        LET n == notifier[KeyOn(id, d)]
        IN  (/\ reminders[id] # Null
             /\ reminders[id].type = "recurring"
             /\ failures = 0
             /\ n.checks >= 2
             /\ n.calls = n.delivered)
              => /\ n.calls = 1
                 /\ n.delivered = 1
                 /\ Cardinality(MarkersOf(KeyOn(id, d))) = 1

\* C7's case: a second tick has checked the marker of a recurring reminder
\* that the first tick delivered.
C7_Witness ==
    \E id \in ReminderIds, d \in Days :
        /\ reminders[id] # Null
        /\ reminders[id].type = "recurring"
        /\ failures = 0
        /\ notifier[KeyOn(id, d)] = [checks |-> 2, calls |-> 1, delivered |-> 1]
        /\ tk[1].pc = "done" /\ tk[1].status = 200 /\ tk[1].body.sent = 0
        /\ tk[1].body.due >= 1

\* C8: once the Notifier has succeeded for a one-time reminder and no store
\* call fails, the reminder is stored with enabled = false when the tick has
\* ended, and no tick calls the Notifier for it again on that day.
C8_OneTimeDisabled ==
    /\ [](\A id \in ReminderIds, d \in Days :
            (/\ reminders[id] # Null
             /\ reminders[id].type = "one-time"
             /\ failures = 0
             /\ notifier[KeyOn(id, d)].delivered >= 1
             /\ \A t \in Ticks : TickFree(t))
              => reminders[id].enabled = FALSE)
    /\ [][\A id \in ReminderIds, d \in Days :
            (/\ reminders[id] # Null
             /\ reminders[id].type = "one-time"
             /\ failures = 0
             /\ notifier[KeyOn(id, d)].delivered >= 1)
              => notifier'[KeyOn(id, d)].calls = notifier[KeyOn(id, d)].calls]_vars

\* C8's case: a one-time reminder was delivered, its tick has ended, and a
\* later tick of the same day has ended as well without sending anything.
C8_Witness ==
    \E id \in ReminderIds :
        /\ reminders[id] # Null
        /\ reminders[id].type = "one-time"
        /\ reminders[id].enabled = FALSE
        /\ failures = 0
        /\ notifier[KeyOn(id, clock.day)].delivered = 1
        /\ tk[1].pc = "done" /\ tk[1].status = 200 /\ tk[1].body.sent = 0
        /\ tk[1].currentDateStr = formatDate(clock.day)
        /\ started >= 2

\* C9: a tick calls the Notifier for a reminder only if the reminder was
\* enabled when scanned, its time is the tick's HH:MM, and it is recurring
\* with the tick's weekday among its days or one-time with the tick's date as
\* its date; and a reminder is never notified on a day of the calendar on
\* which its type, days and date do not make it due.
C9_OnlyDueNotified ==
    /\ \A t \in Ticks :
         tk[t].pc = "send" =>
            LET rem == tk[t].due[tk[t].i]
            IN  /\ rem.enabled = TRUE
                /\ rem.time = tk[t].currentTime
                /\ \/ /\ rem.type = "recurring"
                      /\ Has(rem, "days")
                      /\ \E j \in DOMAIN rem.days : rem.days[j] = tk[t].currentDayName
                   \/ /\ rem.type = "one-time"
                      /\ Has(rem, "date")
                      /\ rem.date = tk[t].currentDateStr
    /\ \A id \in ReminderIds, d \in Days :
         notifier[KeyOn(id, d)].calls > 0 =>
            LET rem == reminders[id]
            IN  /\ rem # Null
                /\ \E m \in 0..MaxMinute : rem.time = formatTime(Calendar.hours, m)
                /\ \/ /\ rem.type = "recurring"
                      /\ Has(rem, "days")
                      /\ \E j \in DOMAIN rem.days :
                            rem.days[j] = DAY_NAMES[getDay(d) + 1]
                   \/ /\ rem.type = "one-time"
                      /\ Has(rem, "date")
                      /\ rem.date = formatDate(d)

\* C9's case: a tick that scanned two enabled reminders is about to call the
\* Notifier for the only one that is due.
C9_Witness ==
    \E t \in Ticks :
        /\ tk[t].pc = "send"
        /\ tk[t].checked = 2
        /\ Len(tk[t].due) = 1

\* There is no secret, or its botToken or chatId is missing or empty.
NotConfigured ==
    \/ secret = Null
    \/ ~Has(secret, "botToken") \/ ~Has(secret, "chatId")
    \/ secret.botToken = "" \/ secret.chatId = ""

\* C10: with the credentials absent or incomplete, a tick whose secrets call
\* did not fail ends with status 200 as "not configured", and no tick calls
\* the Notifier, writes a SentMarker or changes a reminder.
C10_NotConfiguredNoOp ==
    /\ [](NotConfigured =>
            /\ \A t \in Ticks :
                 /\ TickFree(t)
                 /\ (tk[t].pc = "done" /\ failures = 0)
                      => /\ tk[t].status = 200
                         /\ tk[t].body = [message |-> "Telegram not configured"]
            /\ sentReminders = {}
            /\ \A k \in SentKeys : notifier[k].calls = 0)
    /\ [][NotConfigured =>
            /\ reminders' = reminders
            /\ sentReminders' = sentReminders
            /\ notifier' = notifier]_vars

\* C10's case: the secret lacks its chatId, a reminder is due at the tick's
\* minute, and the tick has ended.
C10_Witness ==
    /\ secret # Null
    /\ ~Has(secret, "chatId")
    /\ tk[1].pc = "done" /\ tk[1].status = 200
    /\ reminders[<< "a" >>] = Recurring(<< "a" >>, T0900, << "sheni" >>, TRUE)
    /\ clock = [day |-> Calendar.firstDay, minutes |-> 0]

\* C11: a Notifier call that fails writes no SentMarker and leaves the
\* reminder as stored, and its tick goes on to the next due reminder (or, after
\* the last one, ends with status 200); a SentMarker exists only for a key
\* that was delivered; and a later tick of the same minute and day, its scan
\* succeeding, finds the reminder due again and, having checked a key never
\* delivered, calls the Notifier for it again.
C11_FailedSendRetried ==
    /\ [][\A t \in Ticks :
            (/\ tk[t].pc = "send" /\ tk'[t] # tk[t]
             /\ notifier'[currentKey(t)].delivered = notifier[currentKey(t)].delivered)
              => /\ notifier'[currentKey(t)].calls = notifier[currentKey(t)].calls + 1
                 /\ sentReminders' = sentReminders
                 /\ reminders' = reminders
                 /\ IF tk[t].i < Len(tk[t].due)
                    THEN /\ tk'[t].pc = "check"
                         /\ tk'[t].i = tk[t].i + 1
                         /\ tk'[t].due = tk[t].due
                    ELSE /\ tk'[t].pc = "done"
                         /\ tk'[t].status = 200
                         /\ tk'[t].body.sent = tk[t].sentCount]_vars
    /\ [](\A k \in SentKeys : MarkersOf(k) # {} => notifier[k].delivered >= 1)
    /\ [][\A t \in Ticks :
            /\ (tk[t].pc = "scan" /\ tk'[t] # tk[t] /\ tk'[t].status # 500)
                 => \A id \in ReminderIds :
                      (/\ notifier[sentKey(id, tk[t].currentDateStr)].calls >= 1
                       /\ notifier[sentKey(id, tk[t].currentDateStr)].delivered = 0
                       /\ tk[t].currentTime = reminders[id].time)
                        => \E j \in DOMAIN tk'[t].due : tk'[t].due[j].id = id
            /\ (tk[t].pc = "check" /\ tk'[t] # tk[t]
                  /\ notifier[currentKey(t)].delivered = 0)
                 => tk'[t].pc = "send"]_vars

\* C11's case: the Notifier failed for a reminder in one tick, and a later
\* tick of the same day called it again for the same reminder and succeeded.
C11_Witness ==
    \E id \in ReminderIds :
        /\ notifier[KeyOn(id, clock.day)] = [checks |-> 2, calls |-> 2, delivered |-> 1]
        /\ started = 2
        /\ failures = 0
        /\ MarkersOf(KeyOn(id, clock.day)) # {}

\* ------------------------------------------------------ claims: backups

\* A backup record that holds the document doc.
SnapshotOf(b, doc) ==
    /\ Has(b, "categories") /\ b.categories = doc.categories
    /\ Has(b, "taskLists") /\ b.taskLists = doc.taskLists
    /\ Has(b, "version") /\ b.version = doc.version

\* C12: when an accepted save overwrites a stored location document, the
\* backups hold a snapshot equal to the document stored just before the
\* overwrite; and the client's save goes on to its PUT whatever became of
\* its backup request.
C12_BackupBeforeOverwrite ==
    [][/\ \A l \in LocationIds :
            (accepted'[l] # accepted[l] /\ locations[l] # Null)
              => \E b \in backups : SnapshotOf(b, locations[l])
       /\ \A c \in Clients :
            (cl[c].pc = "backup" /\ cl'[c] # cl[c]) => cl'[c].pc = "put"]_vars

\* C13: a createBackup answered 201 stores its record under an id no record
\* had, keeps every record there was as it was, and so leaves one record
\* more; no other step changes the backups.
C13_BackupsAppendOnly ==
    [][IF \E r \in Reqs : /\ req'[r] # req[r]
                          /\ req'[r].path = << "backups" >>
                          /\ req'[r].status = 201
       THEN /\ backups \subseteq backups'
            /\ Cardinality(backups') = Cardinality(backups) + 1
            /\ \A r \in Reqs :
                 (req'[r] # req[r] /\ req'[r].status = 201)
                   => \A b \in backups : b.id # req'[r].body.id
       ELSE backups' = backups]_vars

\* -------------------------------------------------- claims: concurrency

\* The body of slot r's save, its version set to v.
WithVersion(data, v) == Spread(data, [version |-> v])

\* C14: the answer to a save does not depend on the version it carries (the
\* same body under any other version, against the same store, gets the same
\* position and status), a save is rejected only for an empty state or a
\* suspicious reduction of counts, and an accepted write stores exactly the
\* categories and taskLists of its own request: after concurrent saves the
\* stored content is that of the request whose PutCommand came last.
C14_LastWriteWins ==
    /\ [][\A r \in Reqs :
            /\ (SaveArrives(r) /\ req'[r].status # 500)
                 => /\ req'[r].pc = "done"
                       => /\ req'[r].status = 400
                          /\ \/ EmptyState(req'[r].data)
                             \/ /\ locations[req'[r].id] # Null
                                /\ SuspiciousReduction(locations[req'[r].id], req'[r].data)
                    /\ \A v \in 0..MaxVersion :
                         LET other == WithVersion(req'[r].data, v)
                             blocked ==
                               \/ EmptyState(other)
                               \/ /\ locations[req'[r].id] # Null
                                  /\ SuspiciousReduction(locations[req'[r].id], other)
                         IN  blocked <=> req'[r].pc = "done"
            /\ (req[r].pc = "put" /\ req'[r].status = 200)
                 => /\ locations'[req[r].id].categories
                         = ArrayOrEmpty(req[r].data, "categories")
                    /\ locations'[req[r].id].taskLists
                         = ArrayOrEmpty(req[r].data, "taskLists")]_vars
    /\ [](\A l \in LocationIds :
            lastPut[l] # Null
              => /\ locations[l].categories = ArrayOrEmpty(lastPut[l].data, "categories")
                 /\ locations[l].taskLists = ArrayOrEmpty(lastPut[l].data, "taskLists"))

\* C14's case: two saves of different content were both between their guard
\* read and their PutCommand, both have been answered 200, the one written
\* last carried a version below the stored one, and its content is stored.
C14_Witness ==
    \E l \in LocationIds :
        /\ lastPut[l] # Null
        /\ lastPut[l].raced
        /\ VersionOr0(lastPut[l].data) < lastPut[l].before
        /\ \A r \in Reqs : req[r].pc = "done" /\ req[r].method = "PUT" /\ req[r].status = 200
        /\ ArrayOrEmpty(req[1].data, "categories") # ArrayOrEmpty(req[2].data, "categories")
        /\ locations[l].categories = ArrayOrEmpty(lastPut[l].data, "categories")

\* ------------------------------------------------ claims: gateway routes

\* C15: a GET on a location without a stored document, its GetCommand
\* succeeding, is answered 200 with {id, categories: [], taskLists: [],
\* version: 0}, and no GET stores anything.
C15_GetDefault ==
    [][\A r \in Reqs :
         (Free(r) /\ req'[r] # req[r] /\ req'[r].method = "GET"
            /\ req'[r].path = << "locations" >>)
           => /\ locations' = locations
              /\ (locations[req'[r].id] = Null /\ req'[r].status # 500)
                   => /\ req'[r].status = 200
                      /\ req'[r].body =
                           [id |-> req'[r].id, categories |-> <<>>,
                            taskLists |-> <<>>, version |-> 0]]_vars

\* C15's case: a GET has been answered 200 for a location that, after a
\* rejected save, still has no stored document.
C15_Witness ==
    \E l \in LocationIds :
        /\ locations[l] = Null
        /\ req[1].pc = "done" /\ req[1].method = "GET" /\ req[1].id = l
        /\ req[1].status = 200 /\ req[1].body.version = 0
        /\ req[2].pc = "done" /\ req[2].method = "PUT" /\ req[2].status = 400

\* A step in which slot r takes a request and runs it up to its answer or up
\* to the PutCommand of an update.
Arrives(r) == Free(r) /\ req'[r] # req[r]

\* C16: a POST /reminders whose store call does not fail is answered 400,
\* with nothing stored, when the body, its title or its time is missing or
\* empty; otherwise it is answered 201 with the stored item, and exactly one
\* reminder is new, under an id of its own that no stored reminder had, with
\* the body's title and time, enabled = true unless the body gives false,
\* type recurring unless given, days [] unless given and no date unless given.
\* A failed store call stores nothing.
C16_CreateReminder ==
    [][\A r \in Reqs :
         (Arrives(r) /\ req'[r].method = "POST" /\ req'[r].path = << "reminders" >>)
           => LET data == req'[r].data
                  missing ==
                    \/ data = Null
                    \/ ~Has(data, "title") \/ data.title = ""
                    \/ ~Has(data, "time") \/ data.time = <<>>
              IN  IF req'[r].status = 500 \/ missing
                  THEN /\ reminders' = reminders
                       /\ missing => req'[r].status = 400
                  ELSE /\ req'[r].status = 201
                       /\ \E id \in ReminderIds :
                            /\ reminders[id] = Null
                            /\ \A o \in ReminderIds \ {id} : reminders'[o] = reminders[o]
                            /\ reminders'[id] = req'[r].body
                            /\ LET item == reminders'[id]
                               IN  /\ item.id = id
                                   /\ item.title = data.title
                                   /\ item.time = data.time
                                   /\ item.enabled =
                                        ~(Has(data, "enabled") /\ data.enabled = FALSE)
                                   /\ item.type =
                                        IF Has(data, "type") THEN data.type ELSE "recurring"
                                   /\ item.days =
                                        IF Has(data, "days") THEN data.days ELSE <<>>
                                   /\ IF Has(data, "date") THEN item.date = data.date
                                      ELSE ~Has(item, "date")]_vars

\* C16's case: a body that names an id of its own and gives enabled = false
\* has been answered 201 and is stored, disabled, under the generated id.
C16_Witness ==
    /\ req[1].pc = "done" /\ req[1].method = "POST" /\ req[1].status = 201
    /\ req[1].path = << "reminders" >>
    /\ Has(req[1].data, "id") /\ req[1].data.id = << "b" >>
    /\ req[1].body.id = << "a" >>
    /\ reminders[<< "a" >>] = req[1].body
    /\ reminders[<< "a" >>].enabled = FALSE
    /\ reminders[<< "b" >>] = Null

\* C17: a PUT or a DELETE on /reminders/{id} or /suppliers/{id} whose id is
\* not in the table, its store call not failing, is answered 404 and leaves
\* the table as it was.
C17_UnknownIdNotFound ==
    [][\A r \in Reqs :
         (Arrives(r) /\ req'[r].method \in {"PUT", "DELETE"} /\ req'[r].id # ""
            /\ req'[r].status # 500)
           => /\ (req'[r].path = << "reminders" >> /\ reminders[chars(req'[r].id)] = Null)
                   => (req'[r].status = 404 /\ reminders' = reminders)
              /\ (req'[r].path = << "suppliers" >> /\ suppliers[req'[r].id] = Null)
                   => (req'[r].status = 404 /\ suppliers' = suppliers)]_vars

\* C18: an OPTIONS request is answered 200 whatever its path and its body,
\* and its step leaves every table and the secret as they were.
C18_OptionsAnswered ==
    [][\A r \in Reqs :
         (Arrives(r) /\ req'[r].method = "OPTIONS")
           => /\ req'[r].pc = "done"
              /\ req'[r].status = 200
              /\ req'[r].body = [message |-> "OK"]
              /\ UNCHANGED << locations, reminders, sentReminders, backups, suppliers,
                              secret, generated >>]_vars

\* C18's case: with a reminder and a supplier stored, an OPTIONS request on a
\* path without a route, its body not JSON, has been answered 200.
C18_Witness ==
    /\ req[1].pc = "done" /\ req[1].method = "OPTIONS" /\ req[1].status = 200
    /\ req[1].path = << "nowhere" >>
    /\ req[1].data = BadJson
    /\ reminders[<< "a" >>] # Null
    /\ suppliers["sup-1"] # Null

\* C19: every request is answered with one of the gateway's statuses and
\* every error with an {error} body; the status is 500 only when a store call
\* failed; a body that is not JSON is answered 400; a PUT or POST without a
\* body is answered 400 (404 when its path has no route or its id is
\* unknown), the update of a reminder, which takes no field from its body,
\* left aside; a path without a route is answered 404.
C19_ErrorStatuses ==
    [][\A r \in Reqs :
         /\ (req[r].pc \in {"put", "putReminder", "putSupplier"} /\ req'[r] # req[r])
              => (req'[r].status = 200 \/ req'[r].body = ErrorBody("store"))
         /\ Arrives(r)
              => /\ req'[r].pc = "done" => req'[r].status \in {200, 201, 400, 404, 500}
                 /\ req'[r].status >= 400 => DOMAIN req'[r].body = {"error"}
                 /\ req'[r].status = 500 <=> req'[r].body = ErrorBody("store")
                 /\ (req'[r].data = BadJson /\ req'[r].method # "OPTIONS")
                      => req'[r].status = 400
                 /\ (/\ req'[r].method \in {"PUT", "POST"}
                     /\ req'[r].data = Null
                     /\ ~(req'[r].path = << "reminders" >> /\ req'[r].id # ""))
                      => (req'[r].status \in {400, 404} \/ req'[r].body = ErrorBody("store"))
                 /\ (req'[r].path = << "nowhere" >> /\ req'[r].method # "OPTIONS")
                      => req'[r].status = 404]_vars

\* ------------------------------------- claims: the evaluator and failures

\* C20: with ticks one after the other, some of them aborted or degraded by
\* a failed store call (the marker read, the marker write, the disabling of
\* the reminder), every reminder has been delivered by a successful Notifier
\* call at most once on a day.
C20_IdempotentAcrossFailures ==
    \A id \in ReminderIds, d \in Days : notifier[KeyOn(id, d)].delivered <= 1

\* ------------------------------------------------------------------ C21

\* The step of slot t in which markAsSent's PutCommand succeeds
\* (reminder-checker/index.js:97-98: sentCount++ follows it).
MarkerWritten(t) ==
    tk[t].pc = "mark" /\ tk'[t].sentCount = tk[t].sentCount + 1

\* C21: a SentMarker with key {reminderId}-{DD-MM-YYYY} exists only if a
\* Notifier call for that reminder succeeded for that date, and a marker once
\* written is never written again, changed or removed by a later tick.
C21_MarkerWrittenOnce ==
    /\ [](\A m \in sentReminders : notifier[m.id].delivered >= 1)
    /\ [][\A t \in Ticks :
            MarkerWritten(t) => ~(\E m \in sentReminders : m.id = currentKey(t))]_vars
    /\ [][\A m \in sentReminders : m \in sentReminders']_vars

\* ------------------------------------------------------------------ C22

\* The tick of slot t is in disableReminder for reminder id, after a Notifier
\* call for it succeeded and its marker was written.
DisablingAfterSend(t, id) ==
    /\ tk[t].pc = "disablePut"
    /\ tk[t].due[tk[t].i].id = id
    /\ notifier[currentKey(t)].delivered >= 1
    /\ \E m \in sentReminders : m.id = currentKey(t)

\* C22: a step of an evaluator tick never creates or deletes a reminder,
\* never changes a reminder that is not one-time (a recurring reminder stays
\* enabled), and changes a one-time reminder only by setting enabled to false
\* after a successful send, every other field as it was.
C22_TickOnlyDisables ==
    [][\A id \in ReminderIds :
          /\ (reminders'[id] = Null) <=> (reminders[id] = Null)
          /\ reminders'[id] # reminders[id] =>
               /\ reminders[id].type = "one-time"
               /\ reminders[id].enabled = TRUE
               /\ reminders'[id] = [reminders[id] EXCEPT !.enabled = FALSE]
               /\ \E t \in Ticks : DisablingAfterSend(t, id)]_vars

\* A one-time reminder was sent and disabled, a recurring one was sent at the
\* same minute and is still enabled, and another tick has run since.
C22_Witness ==
    /\ reminders[<< "a" >>] = OneTime(<< "a" >>, T0900, D0211, FALSE)
    /\ reminders[<< "b" >>] = Recurring(<< "b" >>, T0900, << "sheni", "shlishi" >>, TRUE)
    /\ \A id \in ReminderIds : notifier[sentKey(id, D0211)].delivered = 1
    /\ started >= 2
    /\ tk[1].pc = "done" /\ tk[1].status = 200

\* ------------------------------------------------------------------ C23

\* The positions of a tick at a store call whose failure nothing catches:
\* the scan, markAsSent and the two calls of disableReminder.
UnhandledStoreCalls == { "scan", "mark", "disableGet", "disablePut" }

\* Slot t takes a step in which such a call fails.
StoreCallFails(t) ==
    /\ tk[t].pc \in UnhandledStoreCalls
    /\ tk'[t] # tk[t]
    /\ failures' = failures + 1

\* C23: when the scan, markAsSent or disableReminder fails in a tick, the tick
\* ends there with status 500 and writes nothing; a tick works on the due
\* reminder at its position only, its position never goes back, and a tick
\* that has ended takes no further step: no due reminder after the failure
\* point is checked, notified, marked or disabled in that tick.
C23_FailureAbortsTick ==
    [][\A t \in Ticks :
          /\ StoreCallFails(t) =>
               /\ tk'[t].pc = "done" /\ tk'[t].status = 500
               /\ tk'[t].i = tk[t].i /\ tk'[t].due = tk[t].due
               /\ UNCHANGED << reminders, sentReminders, notifier >>
          /\ tk[t].pc = "done" /\ tk'[t] # tk[t] => started' = started + 1
          /\ tk[t].pc \notin {"idle", "done", "scan"} /\ tk'[t] # tk[t] =>
               /\ tk'[t].due = tk[t].due
               /\ tk'[t].i >= tk[t].i
               /\ \A k \in SentKeys : notifier'[k] # notifier[k] => k = currentKey(t)
               /\ \A m \in sentReminders' \ sentReminders : m.id = currentKey(t)
               /\ \A id \in ReminderIds :
                    reminders'[id] # reminders[id] => id = tk[t].due[tk[t].i].id]_vars

\* A tick with two due reminders ended with 500 when the marker of the first
\* could not be written: the second was never checked or notified.
C23_Witness ==
    /\ tk[1].pc = "done" /\ tk[1].status = 500
    /\ Len(tk[1].due) = 2 /\ tk[1].i = 1
    /\ notifier[sentKey(tk[1].due[1].id, tk[1].currentDateStr)].delivered = 1
    /\ sentReminders = {}
    /\ notifier[sentKey(tk[1].due[2].id, tk[1].currentDateStr)].checks = 0

\* ------------------------------------------------------------------ C24

\* Rule 2 between two documents: more than 10 products (or tasks) before,
\* fewer than 3 after.
Rule2Rejects(stored, proposal) ==
    \/ ProductCount(stored) > 10 /\ ProductCount(proposal) < 3
    \/ TaskCount(stored) > 10 /\ TaskCount(proposal) < 3

\* C24: a write that Rule 2 would reject against the document stored at the
\* moment of the write is accepted only from an invocation that read for its
\* guard before another invocation's write and put after it (the read and
\* check are not atomic with the put); the witness shows that such a write
\* is reachable.
C24_ShrinkSlipsOnlyByRace ==
    [][\A l \in LocationIds :
          /\ accepted'[l] = accepted[l] + 1
          /\ locations[l] # Null
          /\ Rule2Rejects(locations[l], locations'[l])
          => lastPut'[l].raced]_vars

\* Two accepted saves of one location: slot 2 stored a document of more than
\* 10 products, then slot 1, which had passed its guard before, overwrote it
\* with fewer than 3.
C24_Witness ==
    \E l \in LocationIds :
        /\ accepted[l] = 2
        /\ req[2].pc = "done" /\ req[2].method = "PUT" /\ req[2].status = 200
        /\ req[2].id = l /\ ProductCount(req[2].body) > 10
        /\ req[1].pc = "done" /\ req[1].method = "PUT" /\ req[1].status = 200
        /\ req[1].id = l /\ locations[l] = req[1].body
        /\ lastPut[l].data = req[1].data /\ lastPut[l].raced
        /\ lastPut[l].before = req[2].body.version
        /\ ProductCount(locations[l]) < 3

\* ------------------------------------------------------------------ C25

\* The step in which the answer (or failure) of subscription s's poll comes.
PollAnswered(c, s) == subs[c][s].pc = "poll" /\ subs'[c][s].pc = "wait"

\* The step in which the interval of subscription s fires.
PollFired(c, s) == subs'[c][s].polls = subs[c][s].polls + 1

\* The callback of subscription s is invoked in this step.
Called(c, s) == subs'[c][s].calls = subs[c][s].calls + 1

\* C25: an answered poll of subscribeLocation invokes the callback and
\* replaces the cache entry only when the GET succeeded and either nothing is
\* cached or the fetched version differs from the cached one, and then with
\* the fetched document; a poll that fetches the cached version and a poll
\* that fails invoke no callback and leave the cache as it is; a poll fired
\* while polling is paused makes no request, invokes no callback and leaves
\* the cache as it is.
C25_PollCallsBackOnNewVersion ==
    [][\A c \in Clients, s \in Subs :
          LET sub == subs[c][s]
              answer_ == req[SubReq(s)]
              cached == versionCache[c][sub.locationId]
              fresh == /\ answer_.status \in 200..299
                       /\ (cached = Null \/ answer_.body.version # cached.version)
          IN  /\ PollAnswered(c, s) /\ sub.kind = "location" =>
                   IF fresh /\ sub.isSubscribed
                   THEN /\ Called(c, s)
                        /\ subs'[c][s].last = answer_.body
                        /\ versionCache'[c][sub.locationId] = answer_.body
                   ELSE ~Called(c, s) /\ UNCHANGED versionCache
              /\ PollFired(c, s) /\ sub.kind = "location" /\ pollingPaused[c] =>
                   /\ subs'[c][s].pc = "wait"
                   /\ ~Called(c, s)
                   /\ UNCHANGED << versionCache, req >>]_vars

\* The subscription got its initial load and two polls, of which one was
\* handed to the callback with the document a second accepted save stored.
C25_Witness ==
    /\ subs[1][1].pc = "wait" /\ subs[1][1].isSubscribed
    /\ subs[1][1].polls = 2
    /\ subs[1][1].calls = 2
    /\ accepted["isgav"] = 2
    /\ versionCache[1]["isgav"] = locations["isgav"]
    /\ versionCache[1]["isgav"].version = 2

\* ------------------------------------------------------------------ C26

\* The unsubscribe function of location subscription s has been called.
Unsubscribed(c, s) ==
    /\ subs[c][s].kind = "location"
    /\ ~subs[c][s].isSubscribed

\* C26: once the unsubscribe function of a subscribeLocation call has been
\* called, the subscription stays unsubscribed, its callback is never invoked
\* again and no step of it writes the version cache, also when its initial
\* load or a poll was in flight and is answered or fails afterwards.
C26_UnsubscribedIsSilent ==
    [][\A c \in Clients, s \in Subs :
          Unsubscribed(c, s) =>
             /\ Unsubscribed(c, s)'
             /\ subs'[c][s].calls = subs[c][s].calls
             /\ subs'[c][s].last = subs[c][s].last
             /\ subs'[c][s] # subs[c][s] => UNCHANGED versionCache]_vars

\* The subscription was unsubscribed while its poll was in flight, and the
\* poll's answer, a version other than the cached one, has arrived.
C26_Witness ==
    /\ Unsubscribed(1, 1)
    /\ subs[1][1].pc = "poll"
    /\ req[SubReq(1)].pc = "done" /\ req[SubReq(1)].status = 200
    /\ versionCache[1]["isgav"] # Null
    /\ req[SubReq(1)].body.version # versionCache[1]["isgav"].version

\* ------------------------------------------------------------------ C27

\* C27: in the api client the answer of a poll never lowers the cached
\* version of a location and never drops the cached entry, and the document
\* a poll hands to the callback is never older than the entry cached before
\* the call (such as the result of a saveLocation that has returned).
C27_CachedVersionNeverDecreases ==
    [][\A c \in Clients, s \in Subs :
          LET l == subs[c][s].locationId
          IN  PollAnswered(c, s) /\ subs[c][s].kind = "location"
                  /\ versionCache[c][l] # Null =>
                /\ versionCache'[c][l] # Null
                /\ versionCache'[c][l].version >= versionCache[c][l].version
                /\ Called(c, s) =>
                     subs'[c][s].last.version >= versionCache[c][l].version]_vars

\* ------------------------------------------------------------------ C28

\* C28: change detection by version is complete: when a successful poll of a
\* subscribed client fetches a stored document whose categories or taskLists
\* differ from the cached document's, the callback is invoked with the
\* fetched document (two stored documents of different content never carry
\* the same version).
C28_ChangeDetectionComplete ==
    [][\A c \in Clients, s \in Subs :
          LET sub == subs[c][s]
              cached == versionCache[c][sub.locationId]
              data == req[SubReq(s)].body
          IN  /\ PollAnswered(c, s)
              /\ sub.kind = "location" /\ sub.isSubscribed
              /\ req[SubReq(s)].status \in 200..299
              /\ cached # Null
              /\ (data.categories # cached.categories \/ data.taskLists # cached.taskLists)
              => Called(c, s) /\ subs'[c][s].last = data]_vars

\* ------------------------------------------------------------------ C29

\* No disableReminder of the evaluator and no updateReminder of the gateway
\* is between its get and its put, and no invocation is running.
Quiescent ==
    /\ \A t \in Ticks : tk[t].pc \in {"idle", "done"}
    /\ \A r \in Reqs : req[r].pc \in {"idle", "done"}

\* C29: a reminder deleted through DELETE /reminders/{id} stays deleted: once
\* the DELETE has been answered 200 and every disableReminder and
\* updateReminder on that id has completed, the reminder is absent from the
\* table.
C29_DeletedStaysDeleted ==
    \A r \in Reqs :
        /\ Quiescent
        /\ req[r].pc = "done" /\ req[r].method = "DELETE"
        /\ req[r].path = << "reminders" >> /\ req[r].status = 200
        => reminders[chars(req[r].id)] = Null

\* ------------------------------------------------------------------ C30

\* C30: after stopAllPolling has returned (and until the next subscribe
\* call), no interval set by an earlier subscribeLocation or
\* subscribeReminders call is still active, whatever subscribe and
\* unsubscribe calls came before.
C30_StopAllPollingStopsAll ==
    \A c \in Clients :
        stopped[c] => \A s \in Subs : ~subs[c][s].interval

====
